---- MODULE Spec2Model ----
(***************************************************************************)
(* Zeno: autoscaling controller for self-hosted CI runners.                *)
(*                                                                         *)
(* The module models                                                       *)
(*   - the reconciler (internal/controller/controller.go): the scaling     *)
(*     decision with hysteresis and cooldown, and the scale-up and         *)
(*     scale-down batches against a provider;                              *)
(*   - the leader elector (package leaderelection) and the wiring of its   *)
(*     callbacks to Controller.Run in cmd/zeno/main.go.                    *)
(*                                                                         *)
(* Specifications:                                                         *)
(*   SpecDecide  makeScalingDecision called directly on drawn inputs        *)
(*   Spec        the reconcile loop over time, provider inventory free      *)
(*   SpecExec    the reconcile loop against a concrete provider inventory   *)
(*   SpecLE      two processes running LeaderElector.Run on one lock path   *)
(*   SpecStore   RecordScaleEvent and the readers of one Store              *)
(*   SpecGH      two callers of one github.Client over time                 *)
(*   SpecProv    RemoveRunner calls on a Docker or an EC2 provider          *)
(*   SpecConfig  Config.Validate on the configurations Load may read        *)
(*   SpecMgr     concurrent Add, Remove and Count calls on a runner.Manager *)
(*   SpecStreak  the reconcile loop without cooldown, for longer streaks    *)
(*   SpecDown    SpecExec from inventories in every provider.RunnerStatus   *)
(*   SpecStamp   batches whose calls fail, followed by ticks in cooldown    *)
(*   SpecHistory the reconcile loop from a queue history near its capacity  *)
(*   SpecPredict the reconcile loop with predictive scaling on and off      *)
(*   SpecStoreIO one Store with its lock, its slices and its event file     *)
(***************************************************************************)
EXTENDS Integers, Sequences, FiniteSets, TLC

VARIABLES
    \* ---- Controller (controller.go:17-33)
    cfg,                \* c.cfg.Scaling and c.cfg.DryRun
    lastScaleUpTime,    \* c.lastScaleUpTime
    lastScaleDownTime,  \* c.lastScaleDownTime
    scaleUpCounter,     \* c.scaleUpCounter
    scaleDownCounter,   \* c.scaleDownCounter
    queueHistory,       \* c.queueHistory
    \* ---- environment of the controller
    now,                \* the wall clock read by time.Now()
    runners,            \* the provider's inventory, in the order ListRunners returns it
    \* ---- observation of the last call / tick
    decision,           \* the ScaleDecision last returned by makeScalingDecision
    tick,               \* what the last reconcile did (record, see NoTick)
    \* ---- leader election (one entry per process)
    inode,              \* the file the lock path currently names
    flock,              \* flock[i]: the process whose open file description holds LOCK_EX on file i, or NoProc
    lockFd,             \* le.lockFd: the file le.lockFd is open on, or NoFd
    isLeader,           \* le.isLeader
    leading,            \* on_acquire has fired without a later on_release (met.LeaderElection gauge)
    ctxDone,            \* the context passed to le.Run is cancelled
    stage,              \* "run": le.Run is in its loop; "stopped": le.Run returned
    newLoops,           \* Controller.Run calls that have not yet made their initial reconcile
    idleLoops,          \* Controller.Run loops waiting on their ticker
    busyLoops,          \* Controller.Run loops inside reconcile
    leEnabled,          \* le.config.Enabled
    lastTry,            \* per process: how its latest tryAcquireLock ended
    leObs,              \* per process: a ticker reconcile started while not leading, context live
    \* ---- Store (store.go:11-21)
    storeCfg,           \* s.config: Enabled, MaxEvents
    events,             \* s.events
    storeFile,          \* the content of the file at s.config.Path
    recorded,           \* every event passed to RecordScaleEvent so far, in order
    \* ---- github.Client (client.go:18-36)
    ghCfg,              \* c.config: MaxRetries, CacheTTL
    cache,              \* c.cache: queuedJobs, timestamp
    populated,          \* updateCache has stored a sample
    call,               \* per caller: its GetQueuedWorkflowJobs call (record, see NoCall)
    \* ---- provider (provider/ec2/ec2.go)
    pvKind,             \* "docker" or "ec2"
    instances,          \* runner id -> state of its container or instance
    muLocked,           \* p.mu is held for writing
    removal,            \* the latest RemoveRunner call (record, see NoRemoval)
    useSpot,            \* p.config.UseSpot of the EC2 provider
    creation,           \* the latest CreateRunner call (record, see NoCreation)
    \* ---- config.Load (part_005)
    candidate,          \* the configuration Load has read (record, see Candidates)
    loadErr,            \* what Config.Validate returned for it, "unloaded" before Load
    scope,              \* the scope of the URL fetchQueuedJobs builds from it
    \* ---- runner.Manager (runner/manager.go)
    mRunners,           \* m.runners of the runner Manager: the ids that are keys of the map
    mOrder,             \* m.order
    nanos,              \* the reading time.Now().UnixNano() gives at present
    mStats,             \* the calls so far (record, see NoCalls)
    \* ---- Store at the grain of its lock, its slices and its file (store.go)
    io                  \* the Store's mutex, its slice and array, the state of its file

ctlVars == <<cfg, lastScaleUpTime, lastScaleDownTime, scaleUpCounter,
             scaleDownCounter, queueHistory, now, runners, decision, tick>>
leVars == <<inode, flock, lockFd, isLeader, leading, ctxDone, stage,
            newLoops, idleLoops, busyLoops, leEnabled, lastTry, leObs>>
stVars == <<storeCfg, events, storeFile, recorded>>
ghVars == <<ghCfg, cache, populated, call>>
pvVars == <<pvKind, instances, muLocked, removal, useSpot, creation>>
cfVars == <<candidate, loadErr, scope>>
mgVars == <<mRunners, mOrder, nanos, mStats>>
ioVars == <<io>>
vars == <<ctlVars, leVars, stVars, ghVars, pvVars, cfVars, mgVars, ioVars>>

(***************************************************************************)
(* Bounds of the model                                                     *)
(***************************************************************************)
MaxMinRunners == 1      \* MinRunners ranges over 0..MaxMinRunners
MaxMaxRunners == 2      \* MaxRunners ranges over MinRunners..MaxMaxRunners
MaxThreshold == 2       \* thresholds range over 0..MaxThreshold
MaxHysteresis == 2      \* hysteresis settings range over 0..MaxHysteresis
MaxCooldown == 2        \* CooldownPeriod ranges over 0..MaxCooldown
MaxQueue == 3           \* queue depths range over 0..MaxQueue
MaxCount == 3           \* runner counts range over 0..MaxCount
MaxElapsed == 3         \* the clock runs from StartTime to StartTime + MaxElapsed
MaxTicks == 2           \* successful queue fetches per behaviour of Spec
MaxInventory == 2       \* runners the provider lists at the start of SpecExec
MaxExecTicks == 1       \* successful queue fetches per behaviour of SpecExec
MaxReplacements == 1    \* times the lock file is replaced in SpecLE
MaxMaxEvents == 2       \* MaxEvents of the store ranges over 0..MaxMaxEvents
MaxRecorded == 4        \* events passed to RecordScaleEvent per behaviour of SpecStore
MaxMaxRetries == 1      \* MaxRetries of the client ranges over 0..MaxMaxRetries
MaxCacheTTL == 1        \* CacheTTL ranges over 0..MaxCacheTTL and the largest Duration
MaxUpstream == 1        \* upstream answers with a queue depth in 1..MaxUpstream
MaxClock == 2           \* the clock of SpecGH runs from StartTime to StartTime + MaxClock
MaxRunnerIDs == 3       \* the provider is asked about runner ids 1..MaxRunnerIDs
MaxStreakTicks == 3     \* ticks per behaviour of SpecStreak
MaxStampTicks == 2      \* ticks per behaviour of SpecStamp
MaxHistoryTicks == 2    \* ticks per behaviour of SpecHistory
MaxPredictTicks == 2    \* ticks per behaviour of SpecPredict
MaxFileEvents == 3      \* events in the file a Store finds when it starts
MaxStoreAppends == 2    \* RecordScaleEvent calls per behaviour of SpecStoreIO
MaxCrashes == 1         \* process ends per behaviour of SpecStoreIO
MaxReaderWrites == 1    \* writes of a reader through a returned slice
MaxAdds == 3            \* Add calls on the Manager per behaviour of SpecMgr
MaxNanos == 3           \* the clock of SpecMgr reads 0..MaxNanos

(***************************************************************************)
(* Time.  A time.Time is an integer; the zero time.Time of an unset field  *)
(* lies so far before the clock's start that now.Sub(zero) is at least any *)
(* CooldownPeriod (Go saturates the difference at the maximum Duration).   *)
(***************************************************************************)
ZeroTime == 0
StartTime == MaxCooldown + 1
Sub(t, u) == t - u

Min2(a, b) == IF a < b THEN a ELSE b
Max2(a, b) == IF a > b THEN a ELSE b

(***************************************************************************)
(* ScaleDecision (controller.go:35-50)                                     *)
(***************************************************************************)
ScaleActionNone == "none"
ScaleActionUp == "up"
ScaleActionDown == "down"

Reason(name, k, of) == [name |-> name, k |-> k, of |-> of]
NoReason == Reason("", 0, 0)

NoDecision ==
    [Action |-> ScaleActionNone, Reason |-> NoReason, CurrentCount |-> 0,
     DesiredCount |-> 0, QueueDepth |-> 0, HysteresisHit |-> FALSE]

\* mutant: the cooldown test that forgets lastScaleDownTime
InCooldownUpOnly(t) == Sub(t, lastScaleUpTime) < cfg.CooldownPeriod

\* c.inCooldownPeriod(), read at clock value t
InCooldownPeriod(t) ==
    \/ Sub(t, lastScaleUpTime) < cfg.CooldownPeriod
    \/ Sub(t, lastScaleDownTime) < cfg.CooldownPeriod

\* the loop of predictQueueGrowth: totalGrowth over recent[1..i]
RECURSIVE TotalGrowth(_, _)
TotalGrowth(recent, i) ==
    IF i < 2 THEN 0
    ELSE TotalGrowth(recent, i - 1) + (recent[i] - recent[i - 1])

\* c.predictQueueGrowth() on history h.  The float64 expression
\* currentQueue + (totalGrowth / (len-1)) * 3 is truncated by int() and
\* floored at 0 by max, which is the floor of the exact quotient floored at 0.
PredictQueueGrowth(h) ==
    IF Len(h) < 5 THEN 0
    ELSE LET windowSize == Min2(10, Len(h))
             recent == SubSeq(h, Len(h) - windowSize + 1, Len(h))
             totalGrowth == TotalGrowth(recent, Len(recent))
             den == Len(recent) - 1
             currentQueue == h[Len(h)]
         IN  Max2(0, (currentQueue * den + totalGrowth * 3) \div den)

\* mutant: the prediction taken whenever predictive scaling is enabled
EffectiveQueuePredicted(queueDepth, h) ==
    IF cfg.EnablePredictiveScaling THEN PredictQueueGrowth(h) ELSE queueDepth

\* the queue depth makeScalingDecision classifies (controller.go:179-189)
EffectiveQueue(queueDepth, h) ==
    IF cfg.EnablePredictiveScaling /\ PredictQueueGrowth(h) > queueDepth
    THEN PredictQueueGrowth(h)
    ELSE queueDepth

\* mutants: the scale-up branch without the MaxRunners cap, the scale-down
\* branch without the MinRunners floor
DesiredUpNoCap(q) == Max2(q, cfg.MinRunners)
DesiredDownNoFloor(q) == q

\* desired count of the scale-up branch (controller.go:197-198)
DesiredUp(q) == Max2(Min2(q, cfg.MaxRunners), cfg.MinRunners)

\* desired count of the scale-down branch (controller.go:219)
DesiredDown(q) == Max2(q, cfg.MinRunners)

\* mutant: the scale-up branch taken at every queue depth, which lifts a
\* runner count below MinRunners to it
ScaleUpBranchAlways(q) == TRUE

\* the test of the scale-up branch (controller.go:195)
ScaleUpBranch(q) == q >= cfg.ScaleUpThreshold

\* mutant: the hysteresis test passed one increment late
HysteresisReachedOneLate(counter, hysteresis) == counter >= hysteresis + 1

\* mutant: the hysteresis test off by one
HysteresisReachedStrict(counter, hysteresis) == counter > hysteresis

\* the hysteresis test on the counter just incremented (controller.go:204, 225)
HysteresisReached(counter, hysteresis) == counter >= hysteresis

(***************************************************************************)
(* makeScalingDecision(queueDepth, currentCount), called at clock value t  *)
(* with history h.  The result carries the returned ScaleDecision and the  *)
(* values the call leaves in c.scaleUpCounter and c.scaleDownCounter.      *)
(***************************************************************************)
MakeScalingDecision(queueDepth, currentCount, t, h) ==
    LET base == [Action |-> ScaleActionNone, Reason |-> NoReason,
                 CurrentCount |-> currentCount, DesiredCount |-> currentCount,
                 QueueDepth |-> queueDepth, HysteresisHit |-> FALSE]
        keep == [up |-> scaleUpCounter, down |-> scaleDownCounter]
        q == EffectiveQueue(queueDepth, h)
    IN
    IF InCooldownPeriod(t) THEN
        [d |-> [base EXCEPT !.Reason = Reason("in_cooldown_period", 0, 0)],
         up |-> keep.up, down |-> keep.down]
    ELSE IF ScaleUpBranch(q) THEN
        IF DesiredUp(q) > currentCount THEN
            IF HysteresisReached(scaleUpCounter + 1, cfg.ScaleUpHysteresis) THEN
                [d |-> [base EXCEPT !.Action = ScaleActionUp,
                                    !.DesiredCount = DesiredUp(q),
                                    !.Reason = Reason("queue_above_threshold", 0, 0)],
                 up |-> 0, down |-> 0]
            ELSE
                [d |-> [base EXCEPT !.HysteresisHit = TRUE,
                                    !.Reason = Reason("hysteresis_check",
                                                      scaleUpCounter + 1,
                                                      cfg.ScaleUpHysteresis)],
                 up |-> scaleUpCounter + 1, down |-> keep.down]
        ELSE [d |-> base, up |-> keep.up, down |-> keep.down]
    ELSE IF q <= cfg.ScaleDownThreshold THEN
        IF DesiredDown(q) < currentCount THEN
            IF HysteresisReached(scaleDownCounter + 1, cfg.ScaleDownHysteresis) THEN
                [d |-> [base EXCEPT !.Action = ScaleActionDown,
                                    !.DesiredCount = DesiredDown(q),
                                    !.Reason = Reason("queue_below_threshold", 0, 0)],
                 up |-> 0, down |-> 0]
            ELSE
                [d |-> [base EXCEPT !.HysteresisHit = TRUE,
                                    !.Reason = Reason("hysteresis_check",
                                                      scaleDownCounter + 1,
                                                      cfg.ScaleDownHysteresis)],
                 up |-> keep.up, down |-> scaleDownCounter + 1]
        ELSE [d |-> base, up |-> keep.up, down |-> keep.down]
    ELSE
        [d |-> [base EXCEPT !.Reason = Reason("queue_in_normal_range", 0, 0)],
         up |-> 0, down |-> 0]

(***************************************************************************)
(* Configurations accepted by Config.Validate (part_005:387-477):           *)
(* MaxRunners >= MinRunners >= 0, ScaleUpThreshold > ScaleDownThreshold    *)
(* >= 0, both hysteresis settings >= 0.                                    *)
(***************************************************************************)
ScalingConfigs(hysts, cooldowns, predictive, dryRuns) ==
    { [MinRunners |-> mn, MaxRunners |-> mx,
       ScaleUpThreshold |-> qu, ScaleDownThreshold |-> qd,
       ScaleUpHysteresis |-> hu, ScaleDownHysteresis |-> hd,
       CooldownPeriod |-> cd, EnablePredictiveScaling |-> pr, DryRun |-> dr] :
        mn \in 0..MaxMinRunners, mx \in 0..MaxMaxRunners,
        qd \in 0..MaxThreshold, qu \in 0..MaxThreshold,
        hu \in hysts, hd \in hysts, cd \in cooldowns,
        pr \in predictive, dr \in dryRuns }

Validate(c) ==
    /\ c.MinRunners >= 0
    /\ c.MaxRunners >= c.MinRunners
    /\ c.ScaleDownThreshold >= 0
    /\ c.ScaleUpThreshold > c.ScaleDownThreshold
    /\ c.ScaleUpHysteresis >= 0
    /\ c.ScaleDownHysteresis >= 0

\* the GitHub part of Config.Validate (part_005:388-400): the error it
\* returns, "nil" when it has none
ValidateGitHub(g) ==
    IF g.Token = "" THEN "github.token is required"
    ELSE IF g.Organization = "" /\ g.Repository = ""
         THEN "either github.organization or github.repository must be set"
    ELSE IF g.MaxRetries < 0 THEN "github.max_retries must be >= 0"
    ELSE IF g.CacheTTL < 0 THEN "github.cache_ttl must be >= 0"
    ELSE "nil"

\* Config.Validate on the GitHub and scaling parts (part_005:387-424)
ConfigValidate(c) ==
    LET e == ValidateGitHub(c.GitHub) IN
    IF e # "nil" THEN e
    ELSE IF ~Validate(c.Scaling) THEN "scaling"
    ELSE "nil"

\* the scope of the URL fetchQueuedJobs requests (client.go:135-140)
URLScope(g) == IF g.Organization # "" THEN "orgs" ELSE "repos"

\* no configuration read yet
ConfigIdle ==
    /\ candidate = [GitHub |-> [Token |-> "", Organization |-> "", Repository |-> "",
                                MaxRetries |-> 0, CacheTTL |-> 0]]
    /\ loadErr = "unloaded"
    /\ scope = "none"

(***************************************************************************)
(* runner.Manager (internal/runner/manager.go).  Every method holds m.mu   *)
(* for its whole body, so concurrent calls take effect one at a time, in   *)
(* any order.                                                              *)
(***************************************************************************)
\* the calls so far: adds, the Add calls completed; removes, the Remove calls
\* that found m.order non-empty; emptyRemoves, those that found it empty;
\* collided, an Add got an id that was a key of the map; lastCount, what the
\* latest Count returned (-1: none yet)
NoCalls ==
    [adds |-> 0, removes |-> 0, emptyRemoves |-> 0, collided |-> FALSE,
     lastCount |-> -1]

\* NewManager (manager.go:20-25)
ManagerIdle ==
    /\ mRunners = {}
    /\ mOrder = <<>>
    /\ nanos = 0
    /\ mStats = NoCalls

\* a Store looked at only through s.events and the events in its file
NoIO == [pc |-> "none"]

StoreIOIdle == io = NoIO

\* generateID (manager.go:62-64): the id is the clock reading
GenerateID == nanos

(***************************************************************************)
(* Observation of the last call or tick:                                   *)
(*   kind      "none" | "decide" (a direct call) | "tick" (a reconcile)    *)
(*   cool      inCooldownPeriod() as the call found it                     *)
(*   up0,down0 the counters before the call                                *)
(*   cand      "up" / "down" for an up / down candidate, else "no"         *)
(*   ageUp0, ageDown0  now - lastScaleUpTime and now - lastScaleDownTime    *)
(*             as the decision found them, counted up to MaxCooldown       *)
(*   batch     the time the latest batch ended, or NoTime                  *)
(*   sinceBatch  the time from the latest batch before this tick to this   *)
(*             tick's decision, counted up to MaxCooldown; NoTime if none  *)
(*   runUp     length of the current run of consecutive up-candidate       *)
(*             decisions that began with both counters zero (0: no run)    *)
(*   runDown   the same for down candidates                                *)
(*   outcome   "decided" | "fetch_failed" | "list_failed"                  *)
(*   failed0   the tick before this one was abandoned                      *)
(* and of an abandoned tick also (see FailedTick)                          *)
(*   lastUp0, lastDown0   lastScaleUpTime, lastScaleDownTime before it     *)
(*   runners0, log0       the provider's runners and s.events before it    *)
(***************************************************************************)
NoTime == -1

NoTick ==
    [kind |-> "none", outcome |-> "none", cool |-> FALSE, up0 |-> 0, down0 |-> 0,
     cand |-> "no", ageUp0 |-> MaxCooldown, ageDown0 |-> MaxCooldown,
     batch |-> NoTime, sinceBatch |-> NoTime, runUp |-> 0, runDown |-> 0,
     failed0 |-> FALSE]

\* the classification of step 6: which candidate (q, c) is, outside cooldown
Candidate(queueDepth, currentCount, h) ==
    LET q == EffectiveQueue(queueDepth, h) IN
    IF q >= cfg.ScaleUpThreshold /\ DesiredUp(q) > currentCount THEN "up"
    ELSE IF q < cfg.ScaleUpThreshold /\ q <= cfg.ScaleDownThreshold
            /\ DesiredDown(q) < currentCount THEN "down"
    ELSE "no"

(***************************************************************************)
(* Leader-election state of a process that has just been constructed       *)
(* (leaderelection.New, part_007:28-35).                                   *)
(***************************************************************************)
Procs == {1, 2}
NoProc == 0
NoFd == -1

LEConstructed ==
    /\ inode = 0
    /\ flock = [i \in {0} |-> NoProc]
    /\ lockFd = [p \in Procs |-> NoFd]
    /\ isLeader = [p \in Procs |-> FALSE]
    /\ leading = [p \in Procs |-> FALSE]
    /\ ctxDone = [p \in Procs |-> FALSE]
    /\ stage = [p \in Procs |-> "run"]
    /\ newLoops = [p \in Procs |-> 0]
    /\ idleLoops = [p \in Procs |-> 0]
    /\ busyLoops = [p \in Procs |-> 0]
    /\ lastTry = [p \in Procs |-> "none"]
    /\ leObs = [p \in Procs |-> FALSE]

(***************************************************************************)
(* Store (internal/store/store.go).  A ScaleEvent is reduced to Action,    *)
(* RunnersBefore, RunnersAfter, QueueDepth and Timestamp.                  *)
(***************************************************************************)
ScaleEvent(action, d, after, t) ==
    [Action |-> action, QueueDepth |-> d.QueueDepth,
     RunnersBefore |-> d.CurrentCount, RunnersAfter |-> after, Timestamp |-> t]

\* the trim of RecordScaleEvent (store.go:61-63): a[len(a)-n:] when len(a) > n
Trim(a, n) == IF Len(a) > n THEN SubSeq(a, Len(a) - n + 1, Len(a)) ELSE a

\* s.events after s.RecordScaleEvent(event) on log (store.go:50-67)
RecordScaleEvent(log, event) ==
    IF ~storeCfg.Enabled THEN log
    ELSE Trim(Append(log, event), storeCfg.MaxEvents)

\* s.events after the events of the sequence evs were recorded in order
RECURSIVE RecordAll(_, _)
RecordAll(log, evs) ==
    IF evs = <<>> THEN log
    ELSE RecordAll(RecordScaleEvent(log, Head(evs)), Tail(evs))

\* s.GetRecentEvents(count) and s.GetAllEvents() (store.go:70-87)
GetRecentEvents(count) ==
    LET n == IF count > Len(events) THEN Len(events) ELSE count
    IN  SubSeq(events, Len(events) - n + 1, Len(events))

GetAllEvents == events

\* store.New with no file to load (store.go:33-47)
StoreConstructed ==
    /\ events = <<>>
    /\ storeFile = <<>>
    /\ recorded = <<>>

\* a store that keeps every event of a behaviour, persistence enabled
StoreIdle ==
    /\ storeCfg = [Enabled |-> TRUE, MaxEvents |-> MaxRecorded]
    /\ StoreConstructed

(***************************************************************************)
(* github.Client (internal/github/client.go)                               *)
(***************************************************************************)
Callers == {1, 2}

\* the largest time.Duration, which Time.Sub returns for a difference that
\* does not fit: time.Since of the zero time.Time
MaxDuration == 2147483647

\* time.Since(ts) read at clock value t
Since(t, ts) == IF ts = ZeroTime THEN MaxDuration ELSE t - ts

\* mutant: a cache that never expires
CacheFreshAlways(age) == TRUE

\* the freshness test of getCachedQueue (client.go:231), negated
CacheFresh(age) == ~(age > ghCfg.CacheTTL)

\* c.getCachedQueue() at clock value t: the cached value and ok
GetCachedQueue(t) ==
    IF CacheFresh(Since(t, cache.timestamp))
    THEN [value |-> cache.queuedJobs, ok |-> TRUE]
    ELSE [value |-> 0, ok |-> FALSE]

\* mutant: a retry loop one attempt short
AttemptAllowedStrict(attempt) == attempt < ghCfg.MaxRetries

\* the loop condition of fetchQueuedJobsWithRetry (client.go:103)
AttemptAllowed(attempt) == attempt <= ghCfg.MaxRetries

\* the errors of fetchQueuedJobs: the request failed, a RateLimitError, a
\* status other than 200, a body that does not decode (client.go:152-190)
FetchErrors == {"network", "rate_limit", "status", "malformed"}

\* c.shouldRetry(err) (client.go:216-225)
ShouldRetry(err) == TRUE

\* a caller's call of GetQueuedWorkflowJobs:
\*   pc        "idle": no call in progress; "fetching": in fetchQueuedJobsWithRetry
\*   at        the time the call was made
\*   attempt   the loop variable of fetchQueuedJobsWithRetry
\*   requests  the upstream requests the call has made
\*   fails     those that failed;  lastErr  the error of the latest one
\*   cancelled the caller's context is cancelled
\*   result    "none" | "hit" | "value" | "error" | "ctx" (ctx.Err())
\*   value     the value returned
\*   pop, age  at the cache check: a sample had been stored, and
\*             time.Since(c.cache.timestamp)
\*   after     the callers whose calls had returned when this call was made
\*   afterMalformed  a request was made after one that returned a malformed body
NoCall ==
    [pc |-> "idle", at |-> NoTime, attempt |-> 0, requests |-> 0, fails |-> 0,
     lastErr |-> "none", cancelled |-> FALSE, result |-> "none", value |-> 0,
     pop |-> FALSE, age |-> NoTime, after |-> {}, afterMalformed |-> FALSE]

\* github.NewClient (client.go:56-67): a cache with the zero timestamp
ClientConstructed ==
    /\ cache = [queuedJobs |-> 0, timestamp |-> ZeroTime]
    /\ populated = FALSE
    /\ call = [p \in Callers |-> NoCall]

\* a client nobody calls, with the default shape of configuration
ClientIdle ==
    /\ ghCfg = [MaxRetries |-> MaxMaxRetries, CacheTTL |-> MaxCacheTTL]
    /\ ClientConstructed

(***************************************************************************)
(* DockerProvider and EC2Provider (internal/provider/ec2/ec2.go)           *)
(***************************************************************************)
RunnerIDs == 1..MaxRunnerIDs

\* what the provider's API knows of a runner id: "running", a container or
\* instance that exists and carries the managed-by and runner-id markers;
\* "created", a container that was created with its labels and never
\* started; "untagged", an EC2 instance without tags; "terminated", an EC2
\* instance after TerminateInstances, which DescribeInstances still returns;
\* "gone", nothing
InstanceStates == {"running", "created", "untagged", "terminated", "gone"}

\* no CreateRunner call yet.  outcome is "nil", "error" or "blocked"; left is
\* the state of the resource the call left behind, "gone" for none
NoCreation == [id |-> 0, outcome |-> "none", left |-> "gone"]

\* no RemoveRunner call yet.  outcome is "nil", "error", or "blocked" for a
\* call that never returns; found is GetRunner's answer for the id, before
\* and after are the provider's state when the call was made and when it ended
NoRemoval ==
    [id |-> 0, graceful |-> FALSE, found |-> FALSE, outcome |-> "none",
     before |-> <<>>, after |-> <<>>]

\* a provider with nothing in it that nobody calls
ProviderIdle ==
    /\ pvKind = "ec2"
    /\ instances = [id \in RunnerIDs |-> "gone"]
    /\ muLocked = FALSE
    /\ removal = NoRemoval
    /\ useSpot = FALSE
    /\ creation = NoCreation

\* GetRunner finds the id (ec2.go:94-112 by DescribeInstances without a state
\* filter, ec2.go:648-661 by ListRunners over all containers)
GetRunnerFinds(id) == instances[id] \notin {"gone", "untagged"}

\* ListRunners returns the id: the managed-by filter of DescribeInstances
\* with the states pending, running, stopping, stopped (ec2.go:60-76), the
\* managed-by label test over all containers (ec2.go:616-626)
ListRunnersReturns(id) == instances[id] \in {"running", "created"}

\* sync.RWMutex: RLock waits while the mutex is held for writing
RLockWaits(held) == held

\* controller.New (controller.go:53-70): zero timestamps and counters, empty history
ControllerConstructed ==
    /\ lastScaleUpTime = ZeroTime
    /\ lastScaleDownTime = ZeroTime
    /\ scaleUpCounter = 0
    /\ scaleDownCounter = 0
    /\ queueHistory = <<>>
    /\ now = StartTime
    /\ decision = NoDecision
    /\ tick = NoTick

(***************************************************************************)
(* SpecDecide: a Controller is built with a drawn configuration and        *)
(* makeScalingDecision is called on drawn (queueDepth, currentCount), as   *)
(* TestMakeScalingDecision and TestScaleUpHysteresis do.                   *)
(***************************************************************************)
InitDecide ==
    /\ cfg \in { c \in ScalingConfigs(0..MaxHysteresis, {0, MaxCooldown}, {FALSE}, {FALSE}) :
                    Validate(c) }
    /\ lastScaleUpTime \in {ZeroTime, StartTime}
    /\ lastScaleDownTime = ZeroTime
    /\ scaleUpCounter = 0
    /\ scaleDownCounter = 0
    /\ queueHistory = <<>>
    /\ now = StartTime
    /\ decision = NoDecision
    /\ tick = NoTick
    /\ runners = <<>>
    /\ LEConstructed
    /\ leEnabled = TRUE
    /\ StoreIdle
    /\ ClientIdle
    /\ ProviderIdle
    /\ ConfigIdle
    /\ ManagerIdle
    /\ StoreIOIdle

DecideCall ==
    \E q \in 0..MaxQueue, c \in 0..MaxCount :
        LET r == MakeScalingDecision(q, c, now, queueHistory) IN
        /\ decision' = r.d
        /\ scaleUpCounter' = r.up
        /\ scaleDownCounter' = r.down
        /\ tick' = [NoTick EXCEPT
                       !.kind = "decide", !.outcome = "decided",
                       !.cool = InCooldownPeriod(now),
                       !.up0 = scaleUpCounter, !.down0 = scaleDownCounter,
                       !.cand = IF InCooldownPeriod(now) THEN "no"
                                ELSE Candidate(q, c, queueHistory)]
        /\ UNCHANGED <<cfg, lastScaleUpTime, lastScaleDownTime, queueHistory,
                       now, runners>>
        /\ UNCHANGED <<leVars, stVars, ghVars, pvVars, cfVars, mgVars, ioVars>>

NextDecide == DecideCall

SpecDecide == InitDecide /\ [][NextDecide]_vars

(***************************************************************************)
(* Claims on makeScalingDecision as a function (SpecDecide)                *)
(***************************************************************************)
Clamp(x, lo, hi) == IF x < lo THEN lo ELSE IF x > hi THEN hi ELSE x

Decided == tick.kind = "decide"

C5_DecisionFunction ==
    (/\ Decided
     /\ ~tick.cool
     /\ ~cfg.EnablePredictiveScaling
     /\ cfg.ScaleUpHysteresis = 1
     /\ cfg.ScaleDownHysteresis = 1) =>
        LET q == decision.QueueDepth
            c == decision.CurrentCount
            dUp == Clamp(q, cfg.MinRunners, cfg.MaxRunners)
            dDown == IF q > cfg.MinRunners THEN q ELSE cfg.MinRunners
            isUp == q >= cfg.ScaleUpThreshold /\ dUp > c
            isDown == q <= cfg.ScaleDownThreshold /\ dDown < c
        IN  /\ decision.Action = ScaleActionUp <=> isUp
            /\ decision.Action = ScaleActionDown <=> isDown
            /\ isUp => decision.DesiredCount = dUp
            /\ isDown => decision.DesiredCount = dDown
            /\ (~isUp /\ ~isDown) =>
                  /\ decision.Action = ScaleActionNone
                  /\ decision.DesiredCount = c
            /\ (cfg.ScaleDownThreshold < q /\ q < cfg.ScaleUpThreshold) =>
                  /\ scaleUpCounter = 0
                  /\ scaleDownCounter = 0

C5_Witness ==
    /\ Decided
    /\ ~tick.cool
    /\ cfg.ScaleUpHysteresis = 1
    /\ cfg.ScaleDownHysteresis = 1
    /\ decision.Action = ScaleActionDown
    /\ decision.DesiredCount = cfg.MinRunners
    /\ decision.QueueDepth < cfg.MinRunners

(***************************************************************************)
(* Spec: the reconcile loop of one Controller over time.  The provider is  *)
(* the interface of provider.Provider: ListRunners may fail or return any  *)
(* number of runners, creates and removes may fail; what a batch does to   *)
(* the inventory is the subject of SpecExec.                               *)
(***************************************************************************)
HistoryCap == 100

\* mutant: a history that is never cut
UpdateQueueHistoryUncut(h, queueDepth) == Append(h, queueDepth)

\* c.updateQueueHistory(queueDepth)
UpdateQueueHistory(h, queueDepth) ==
    LET a == Append(h, queueDepth) IN
    IF Len(a) > HistoryCap THEN Tail(a) ELSE a

\* mutant: executeScaling without the dry-run return
BatchRunsInDryRun(d, batchListOK) ==
    /\ d.Action # ScaleActionNone
    /\ (d.Action = ScaleActionDown => batchListOK)

\* executeScaling, scaleUp and scaleDown as far as the Controller's own
\* fields go: the batch stamps its timestamp when it ends, at clock value t;
\* scaleDown returns before the stamp when its ListRunners fails.
BatchRuns(d, batchListOK) ==
    /\ d.Action # ScaleActionNone
    /\ ~cfg.DryRun
    /\ (d.Action = ScaleActionDown => batchListOK)

StampUp(d, batchListOK, t) ==
    IF BatchRuns(d, batchListOK) /\ d.Action = ScaleActionUp
    THEN t ELSE lastScaleUpTime

StampDown(d, batchListOK, t) ==
    IF BatchRuns(d, batchListOK) /\ d.Action = ScaleActionDown
    THEN t ELSE lastScaleDownTime

\* the outcomes of a tick that reconcile abandons before makeScalingDecision
FailedOutcomes == {"fetch_failed", "list_failed"}

\* mutant: an abandoned tick that starts both streaks again
CountersReset == [up |-> 0, down |-> 0]

\* the hysteresis counters after a tick that reconcile abandons
\* (controller.go:113-115, 125-127): reconcile returns before it touches them
CountersKept == [up |-> scaleUpCounter, down |-> scaleDownCounter]

\* the observation of an abandoned tick: the previous observation with the
\* outcome and the Controller's fields, the runners and the log before it
FailedTick(outcome) ==
    [kind |-> "tick", outcome |-> outcome,
     up0 |-> scaleUpCounter, down0 |-> scaleDownCounter,
     lastUp0 |-> lastScaleUpTime, lastDown0 |-> lastScaleDownTime,
     runners0 |-> runners, log0 |-> events] @@ tick

\* the observation of a tick that reached makeScalingDecision
ObserveDecided(q, c, h, d, ran, t) ==
    LET cool == InCooldownPeriod(now)
        cand == IF cool THEN "no" ELSE Candidate(q, c, h)
        fresh == scaleUpCounter = 0 /\ scaleDownCounter = 0
        fired == decision.Action # ScaleActionNone
        prevUp == IF fired THEN 0 ELSE tick.runUp
        prevDown == IF fired THEN 0 ELSE tick.runDown
    IN  [kind |-> "tick", outcome |-> "decided", cool |-> cool,
         failed0 |-> tick.outcome \in FailedOutcomes,
         up0 |-> scaleUpCounter, down0 |-> scaleDownCounter,
         cand |-> cand,
         ageUp0 |-> Min2(now - lastScaleUpTime, MaxCooldown),
         ageDown0 |-> Min2(now - lastScaleDownTime, MaxCooldown),
         batch |-> IF ran THEN t ELSE tick.batch,
         sinceBatch |-> IF tick.batch = NoTime THEN NoTime
                        ELSE Min2(now - tick.batch, MaxCooldown),
         runUp |-> IF cand # "up" THEN 0
                   ELSE IF prevUp > 0 THEN prevUp + 1
                   ELSE IF fresh THEN 1 ELSE 0,
         runDown |-> IF cand # "down" THEN 0
                     ELSE IF prevDown > 0 THEN prevDown + 1
                     ELSE IF fresh THEN 1 ELSE 0]

\* c.reconcile(ctx) when GetQueuedWorkflowJobs fails (controller.go:112-115)
ReconcileFetchFailed ==
    /\ tick' = FailedTick("fetch_failed")
    /\ scaleUpCounter' = CountersKept.up
    /\ scaleDownCounter' = CountersKept.down
    /\ UNCHANGED <<lastScaleUpTime, lastScaleDownTime, queueHistory, decision, now>>

\* c.reconcile(ctx) when ListRunners fails after queue depth q was fetched
\* (controller.go:112-127)
ReconcileListFailed(q) ==
    /\ queueHistory' = UpdateQueueHistory(queueHistory, q)
    /\ tick' = FailedTick("list_failed")
    /\ scaleUpCounter' = CountersKept.up
    /\ scaleDownCounter' = CountersKept.down
    /\ UNCHANGED <<lastScaleUpTime, lastScaleDownTime, decision, now>>

\* the Controller's fields after a c.reconcile(ctx) that fetched queue depth q
\* and listed c runners (controller.go:102-163); the batch, if one runs, ends
\* e after the decision.
ReconcileDecided(q, c, batchListOK, e) ==
    LET h == UpdateQueueHistory(queueHistory, q)
        r == MakeScalingDecision(q, c, now, h)
        ran == BatchRuns(r.d, batchListOK)
    IN  /\ (r.d.Action # ScaleActionDown \/ cfg.DryRun) => batchListOK
        /\ ~ran => e = 0
        /\ queueHistory' = h
        /\ decision' = r.d
        /\ scaleUpCounter' = r.up
        /\ scaleDownCounter' = r.down
        /\ now' = now + e
        /\ lastScaleUpTime' = StampUp(r.d, batchListOK, now + e)
        /\ lastScaleDownTime' = StampDown(r.d, batchListOK, now + e)
        /\ tick' = ObserveDecided(q, c, h, r.d, ran, now + e)

\* the queue depths and runner counts the environment of Spec produces: at
\* the scale-down threshold, in the normal band, at the scale-up threshold;
\* no runners, MaxRunners runners, one more
LoopQueues == {cfg.ScaleDownThreshold, cfg.ScaleDownThreshold + 1, cfg.ScaleUpThreshold}
LoopCounts == {0, cfg.MaxRunners, cfg.MaxRunners + 1}

Reconcile ==
    /\ Len(queueHistory) < MaxTicks
    /\ \/ ReconcileFetchFailed
       \/ \E q \in LoopQueues : ReconcileListFailed(q)
       \/ \E q \in LoopQueues, c \in LoopCounts, e \in 0..1, batchListOK \in BOOLEAN :
             /\ now + e <= StartTime + MaxElapsed
             /\ ReconcileDecided(q, c, batchListOK, e)
    /\ UNCHANGED <<cfg, runners>>
    /\ UNCHANGED <<leVars, stVars, ghVars, pvVars, cfVars, mgVars, ioVars>>

\* time passes between ticks
Advance ==
    /\ now < StartTime + MaxElapsed
    /\ now' = now + 1
    /\ UNCHANGED <<cfg, lastScaleUpTime, lastScaleDownTime, scaleUpCounter,
                   scaleDownCounter, queueHistory, runners, decision, tick>>
    /\ UNCHANGED <<leVars, stVars, ghVars, pvVars, cfVars, mgVars, ioVars>>

\* the configurations of Spec: every hysteresis setting from 1 and every
\* cooldown of the ranges, with the widest runner bounds and normal band
LoopConfigs ==
    { c \in ScalingConfigs(1..MaxHysteresis, 0..MaxCooldown, {FALSE}, {FALSE}) :
        /\ Validate(c)
        /\ c.MinRunners = MaxMinRunners
        /\ c.MaxRunners = MaxMaxRunners
        /\ c.ScaleDownThreshold = 0
        /\ c.ScaleUpThreshold = MaxThreshold }

Init ==
    /\ cfg \in LoopConfigs
    /\ ControllerConstructed
    /\ runners = <<>>
    /\ LEConstructed
    /\ leEnabled = TRUE
    /\ StoreIdle
    /\ ClientIdle
    /\ ProviderIdle
    /\ ConfigIdle
    /\ ManagerIdle
    /\ StoreIOIdle

Next == Reconcile \/ Advance

Spec == Init /\ [][Next]_vars

(***************************************************************************)
(* Claims on the reconcile loop (Spec)                                     *)
(***************************************************************************)
TickDecided == tick.kind = "tick" /\ tick.outcome = "decided"

\* C1: a tick whose decision is taken less than CooldownPeriod after the end of
\* an executed scale-up or scale-down batch emits action none, whatever queue
\* depth and runner count it sees; a tick emits an action only when both
\* lastScaleUpTime and lastScaleDownTime are at least CooldownPeriod old.
C1_Cooldown ==
    TickDecided =>
        /\ (tick.sinceBatch # NoTime /\ tick.sinceBatch < cfg.CooldownPeriod)
              => decision.Action = ScaleActionNone
        /\ decision.Action # ScaleActionNone =>
              /\ tick.ageUp0 >= cfg.CooldownPeriod
              /\ tick.ageDown0 >= cfg.CooldownPeriod

C1_Witness ==
    /\ TickDecided
    /\ tick.sinceBatch # NoTime
    /\ tick.sinceBatch > 0
    /\ tick.sinceBatch < cfg.CooldownPeriod
    /\ decision.QueueDepth >= cfg.ScaleUpThreshold
    /\ decision.CurrentCount = 0
    /\ decision.Action = ScaleActionNone

\* C2: in a run of consecutive up-candidate decisions that began with both
\* counters zero, with ScaleUpHysteresis = k, decisions 1..k-1 return none with
\* HysteresisHit set and decision k returns up and leaves both counters zero;
\* the same for down candidates with ScaleDownHysteresis.
C2_HysteresisGate ==
    TickDecided =>
        /\ (tick.runUp > 0 /\ tick.runUp < cfg.ScaleUpHysteresis) =>
              /\ decision.Action = ScaleActionNone
              /\ decision.HysteresisHit
        /\ (tick.runUp > 0 /\ tick.runUp = cfg.ScaleUpHysteresis) =>
              /\ decision.Action = ScaleActionUp
              /\ scaleUpCounter = 0
              /\ scaleDownCounter = 0
        /\ (tick.runDown > 0 /\ tick.runDown < cfg.ScaleDownHysteresis) =>
              /\ decision.Action = ScaleActionNone
              /\ decision.HysteresisHit
        /\ (tick.runDown > 0 /\ tick.runDown = cfg.ScaleDownHysteresis) =>
              /\ decision.Action = ScaleActionDown
              /\ scaleUpCounter = 0
              /\ scaleDownCounter = 0

C2_Witness ==
    /\ TickDecided
    /\ cfg.ScaleUpHysteresis >= 2
    /\ tick.runUp = cfg.ScaleUpHysteresis
    /\ decision.Action = ScaleActionUp

TickFailed == tick.kind = "tick" /\ tick.outcome \in FailedOutcomes

\* C21: a tick whose queue-depth fetch or provider list fails leaves the
\* runners, the event log, both hysteresis counters and both scaling
\* timestamps exactly as they were, and the tick after it runs normally: an
\* up candidate continues the streak the abandoned tick found, and emits up
\* exactly when that streak reaches ScaleUpHysteresis; the same for down.
C21_FailedTickFrame ==
    /\ TickFailed =>
          /\ runners = tick.runners0
          /\ events = tick.log0
          /\ scaleUpCounter = tick.up0
          /\ scaleDownCounter = tick.down0
          /\ lastScaleUpTime = tick.lastUp0
          /\ lastScaleDownTime = tick.lastDown0
    /\ (TickDecided /\ tick.failed0 /\ tick.cand = "up") =>
          (decision.Action = ScaleActionUp <=> tick.up0 + 1 >= cfg.ScaleUpHysteresis)
    /\ (TickDecided /\ tick.failed0 /\ tick.cand = "down") =>
          (decision.Action = ScaleActionDown <=> tick.down0 + 1 >= cfg.ScaleDownHysteresis)

\* a streak of one survives an abandoned tick and the next tick completes it
C21_Witness ==
    /\ TickDecided
    /\ tick.failed0
    /\ tick.up0 = 1
    /\ cfg.ScaleUpHysteresis = 2
    /\ decision.Action = ScaleActionUp

\* C3: after every tick at most one of scaleUpCounter and scaleDownCounter is
\* non-zero.
C3_CountersExclusive ==
    scaleUpCounter = 0 \/ scaleDownCounter = 0

(***************************************************************************)
(* SpecExec: the reconcile loop against a concrete provider inventory.     *)
(* runners is the list ListRunners returns, in the provider's order; a     *)
(* runner is a provider.Runner reduced to ID, Status and CreatedAt.  The   *)
(* inventory changes only through the controller's successful creates and  *)
(* removes.                                                               *)
(***************************************************************************)
StatusProvisioning == "provisioning"
StatusRunning == "running"
StatusIdle == "idle"
StatusTerminated == "terminated"
StatusPending == "pending"
StatusBusy == "busy"
StatusTerminating == "terminating"
StatusFailed == "failed"

Runner(id, status, createdAt) == [ID |-> id, Status |-> status, CreatedAt |-> createdAt]

\* the statuses a listed runner of the initial inventory is in
ListedStatuses == {StatusIdle, StatusRunning, StatusTerminated}

\* mutant: a scaleDown that takes the runners as they come
EligibleWhatever(r) == TRUE

\* the test of scaleDown on a listed runner (controller.go:348)
Eligible(r) == r.Status = StatusIdle \/ r.Status = StatusRunning

EligibleIDs(list) == { list[k].ID : k \in { j \in 1..Len(list) : Eligible(list[j]) } }

\* mutant: the removal loop that never stops early
BatchNeverDone(removed, count) == FALSE

\* the loop exit of scaleDown (controller.go:344-346)
BatchDone(removed, count) == removed >= count

\* the loop of scaleDown (controller.go:343-380) from position i of the list,
\* with the IDs in fails the runners whose RemoveRunner returns an error;
\* the result is the sequence of IDs removed, in order of removal
RECURSIVE ScaleDownLoop(_, _, _, _, _)
ScaleDownLoop(list, i, removed, count, fails) ==
    IF i > Len(list) \/ BatchDone(Len(removed), count) THEN removed
    ELSE IF Eligible(list[i]) /\ list[i].ID \notin fails
         THEN ScaleDownLoop(list, i + 1, Append(removed, list[i].ID), count, fails)
         ELSE ScaleDownLoop(list, i + 1, removed, count, fails)

\* the inventory after the runners with the IDs of removed are gone
WithoutRemoved(list, removed) ==
    LET gone == { removed[k] : k \in 1..Len(removed) } IN
    SelectSeq(list, LAMBDA r : r.ID \notin gone)

RECURSIVE MaxID(_, _)
MaxID(list, i) ==
    IF i = 0 THEN 0 ELSE Max2(list[i].ID, MaxID(list, i - 1))

\* the runners n successful CreateRunner calls return at clock value t
\* (ec2.go:168-182): fresh IDs, provisioning, CreatedAt = time.Now()
RECURSIVE CreatedRunners(_, _, _)
CreatedRunners(n, lastId, t) ==
    IF n = 0 THEN <<>>
    ELSE <<Runner(lastId + 1, StatusProvisioning, t)>> \o CreatedRunners(n - 1, lastId + 1, t)

\* the inventory after the loop of scaleUp (controller.go:283-317): the
\* iterations in oks create a runner, the others fail and continue; the
\* provider lists the new runners before or after the ones it had
ScaleUpLoop(list, count, oks, atHead, t) ==
    LET made == CreatedRunners(Cardinality(oks), MaxID(list, Len(list)), t) IN
    IF atHead THEN made \o list ELSE list \o made

\* mutant: scaleUp that gives the batch up at the first failed create
CreateFailureAborts == FALSE

\* a failed CreateRunner is logged and counted and the loop continues
\* (controller.go:291-299)
CreateFailureContinues == TRUE

\* the loop of scaleUp (controller.go:283-317) from iteration i: the calls of
\* CreateRunner made, the runners created, and the events passed to
\* RecordScaleEvent, with oks the iterations whose create succeeds
RECURSIVE ScaleUpIter(_, _, _, _, _, _)
ScaleUpIter(i, count, oks, d, t, acc) ==
    IF i >= count THEN acc
    ELSE IF i \in oks
         THEN ScaleUpIter(i + 1, count, oks, d, t,
                  [calls |-> acc.calls + 1, created |-> acc.created + 1,
                   passed |-> Append(acc.passed,
                                 ScaleEvent("scale_up", d, d.CurrentCount + i + 1, t))])
         ELSE IF CreateFailureContinues
              THEN ScaleUpIter(i + 1, count, oks, d, t, [acc EXCEPT !.calls = @ + 1])
              ELSE [acc EXCEPT !.calls = @ + 1]

ScaleUpRun(d, oks, t) ==
    ScaleUpIter(0, d.DesiredCount - d.CurrentCount, oks, d, t,
                [calls |-> 0, created |-> 0, passed |-> <<>>])

\* the events scaleDown passes to RecordScaleEvent, one per successful
\* remove (controller.go:365-378)
ScaleDownEvents(d, removed, t) ==
    [k \in 1..Len(removed) |-> ScaleEvent("scale_down", d, d.CurrentCount - k, t)]

\* observation of a tick of SpecExec:
\*   action, ran   the decision's action and whether its batch ran to its end
\*   pre           the list the batch started from
\*   removed       the IDs removed, in order;  created  the runners created
\*   fails         the IDs whose RemoveRunner would return an error
ExecTick(d, ran, pre, removed, created, fails) ==
    [kind |-> "exec", outcome |-> "decided", action |-> d.Action, ran |-> ran,
     pre |-> pre, removed |-> removed, created |-> created, fails |-> fails]

\* what the tick did to the provider and the store:
\*   creates, removes  the calls of CreateRunner and RemoveRunner it made
\*   targets           the IDs it called RemoveRunner for, in order
\*   oks               the iterations of scaleUp whose create succeeded
\*   passed            the events it passed to RecordScaleEvent, in order
\*   log0, up0, down0  s.events, lastScaleUpTime, lastScaleDownTime before it
CallsTick(creates, removes, oks, passed) ==
    [creates |-> creates, removes |-> Len(removes), targets |-> removes,
     oks |-> oks, passed |-> passed,
     log0 |-> events, up0 |-> lastScaleUpTime, down0 |-> lastScaleDownTime]

\* the calls of RemoveRunner the loop of scaleDown makes: one per eligible
\* runner it reaches before it has removed count runners
RECURSIVE RemoveCalls(_, _, _, _, _)
RemoveCalls(list, i, removed, count, fails) ==
    IF i > Len(list) \/ BatchDone(removed, count) THEN 0
    ELSE IF ~Eligible(list[i]) THEN RemoveCalls(list, i + 1, removed, count, fails)
    ELSE 1 + RemoveCalls(list, i + 1,
                         IF list[i].ID \in fails THEN removed ELSE removed + 1,
                         count, fails)

\* the IDs the loop of scaleDown calls RemoveRunner for, in order
\* (controller.go:343-380)
RECURSIVE RemoveTargets(_, _, _, _, _)
RemoveTargets(list, i, removed, count, fails) ==
    IF i > Len(list) \/ BatchDone(removed, count) THEN <<>>
    ELSE IF ~Eligible(list[i]) THEN RemoveTargets(list, i + 1, removed, count, fails)
    ELSE <<list[i].ID>> \o RemoveTargets(list, i + 1,
                             IF list[i].ID \in fails THEN removed ELSE removed + 1,
                             count, fails)

\* c.reconcile(ctx) that fetched queue depth q and listed runners
\* (controller.go:102-163) with executeScaling, scaleUp and scaleDown
ReconcileExecDecided(q) ==
    LET h == UpdateQueueHistory(queueHistory, q)
        c == Len(runners)
        r == MakeScalingDecision(q, c, now, h)
        d == r.d
    IN  /\ queueHistory' = h
        /\ decision' = d
        /\ scaleUpCounter' = r.up
        /\ scaleDownCounter' = r.down
        /\ \/ \* executeScaling returns at once: no action, or dry run
              /\ ~BatchRuns(d, TRUE)
              /\ tick' = ExecTick(d, FALSE, runners, <<>>, 0, {})
                            @@ CallsTick(0, <<>>, {}, <<>>)
              /\ UNCHANGED <<runners, lastScaleUpTime, lastScaleDownTime,
                             events, recorded, storeFile>>
           \/ \* scaleUp
              /\ BatchRuns(d, TRUE) /\ d.Action = ScaleActionUp
              /\ \E oks \in SUBSET (0..(d.DesiredCount - c - 1)), atHead \in BOOLEAN :
                    LET run == ScaleUpRun(d, oks, now) IN
                    /\ (oks = {}) => ~atHead
                    /\ runners' = ScaleUpLoop(runners, d.DesiredCount - c, oks, atHead, now)
                    /\ tick' = ExecTick(d, TRUE, runners, <<>>, run.created, {})
                                  @@ CallsTick(run.calls, <<>>, oks, run.passed)
                    /\ events' = RecordAll(events, run.passed)
                    /\ recorded' = recorded \o run.passed
              /\ storeFile' = IF storeCfg.Enabled THEN events' ELSE storeFile
              /\ lastScaleUpTime' = StampUp(d, TRUE, now)
              /\ lastScaleDownTime' = StampDown(d, TRUE, now)
           \/ \* scaleDown whose ListRunners fails
              /\ BatchRuns(d, TRUE) /\ d.Action = ScaleActionDown
              /\ tick' = ExecTick(d, BatchRuns(d, FALSE), runners, <<>>, 0, {})
                            @@ CallsTick(0, <<>>, {}, <<>>)
              /\ lastScaleUpTime' = StampUp(d, FALSE, now)
              /\ lastScaleDownTime' = StampDown(d, FALSE, now)
              /\ UNCHANGED <<runners, events, recorded, storeFile>>
           \/ \* scaleDown
              /\ BatchRuns(d, TRUE) /\ d.Action = ScaleActionDown
              /\ \E fails \in SUBSET EligibleIDs(runners) :
                    LET removed == ScaleDownLoop(runners, 1, <<>>,
                                                 c - d.DesiredCount, fails)
                        passed == ScaleDownEvents(d, removed, now)
                    IN  /\ runners' = WithoutRemoved(runners, removed)
                        /\ tick' = ExecTick(d, TRUE, runners, removed, 0, fails)
                                      @@ CallsTick(0, RemoveTargets(runners, 1, 0,
                                                       c - d.DesiredCount, fails),
                                                   {}, passed)
                        /\ events' = RecordAll(events, passed)
                        /\ recorded' = recorded \o passed
              /\ storeFile' = IF storeCfg.Enabled THEN events' ELSE storeFile
              /\ lastScaleUpTime' = StampUp(d, TRUE, now)
              /\ lastScaleDownTime' = StampDown(d, TRUE, now)
        /\ UNCHANGED now

ReconcileExec ==
    /\ Len(queueHistory) < MaxExecTicks
    /\ \/ ReconcileFetchFailed /\ UNCHANGED <<runners, events, recorded, storeFile>>
       \/ \E q \in LoopQueues :
             ReconcileListFailed(q) /\ UNCHANGED <<runners, events, recorded, storeFile>>
       \/ \E q \in LoopQueues : ReconcileExecDecided(q)
    /\ UNCHANGED <<cfg, storeCfg>>
    /\ UNCHANGED <<leVars, ghVars, pvVars, cfVars, mgVars, ioVars>>

\* the instance of a runner the controller created reaches its running state
\* (mapInstanceState, ec2.go:466-483)
RunnerStarts ==
    /\ \E k \in 1..Len(runners) :
          /\ runners[k].Status = StatusProvisioning
          /\ runners' = [runners EXCEPT ![k].Status = StatusRunning]
    /\ UNCHANGED <<cfg, lastScaleUpTime, lastScaleDownTime, scaleUpCounter,
                   scaleDownCounter, queueHistory, now, decision, tick>>
    /\ UNCHANGED <<leVars, stVars, ghVars, pvVars, cfVars, mgVars, ioVars>>

\* the permutations of 1..n, as sequences
Perms(n) == { f \in [1..n -> 1..n] : \A i, j \in 1..n : f[i] = f[j] => i = j }

\* the inventories SpecExec starts from: up to MaxInventory runners listed in
\* every order of their creation times, each in every listed status; the
\* runner created k-th has ID k and was created MaxInventory + 1 - k before
\* the clock's start
Inventories ==
    UNION { { [k \in 1..n |-> Runner(f[k], st[k], StartTime - (MaxInventory + 1 - f[k]))] :
                f \in Perms(n), st \in [1..n -> ListedStatuses] } :
            n \in 0..MaxInventory }

\* the configurations of SpecExec: every pair of runner bounds, hysteresis 1,
\* no cooldown, the widest normal band
ExecConfigs ==
    { c \in ScalingConfigs({1}, {0}, {FALSE}, BOOLEAN) :
        /\ Validate(c)
        /\ c.ScaleDownThreshold = 0
        /\ c.ScaleUpThreshold = MaxThreshold }

InitExec ==
    /\ cfg \in ExecConfigs
    /\ ControllerConstructed
    /\ runners \in Inventories
    /\ LEConstructed
    /\ leEnabled = TRUE
    /\ storeCfg \in [Enabled : BOOLEAN, MaxEvents : {MaxRecorded}]
    /\ StoreConstructed
    /\ ClientIdle
    /\ ProviderIdle
    /\ ConfigIdle
    /\ ManagerIdle
    /\ StoreIOIdle

NextExec == ReconcileExec \/ RunnerStarts

SpecExec == InitExec /\ [][NextExec]_vars

(***************************************************************************)
(* Claims on the batches (SpecExec)                                        *)
(***************************************************************************)
BatchRan == tick.kind = "exec" /\ tick.outcome = "decided" /\ tick.ran

\* C6: with the listed runners changing only through the controller's own
\* successful creates and removes, a scale-up batch that starts from at most
\* MaxRunners listed runners leaves at most MaxRunners listed runners, and a
\* scale-down batch leaves at least MinRunners listed runners.
C6_BatchesRespectBounds ==
    BatchRan =>
        /\ (tick.action = ScaleActionUp /\ Len(tick.pre) <= cfg.MaxRunners)
              => Len(runners) <= cfg.MaxRunners
        /\ tick.action = ScaleActionDown => Len(runners) >= cfg.MinRunners

C6_Witness ==
    /\ BatchRan
    /\ tick.action = ScaleActionDown
    /\ Len(tick.removed) >= 1
    /\ cfg.MinRunners >= 1
    /\ Len(runners) = cfg.MinRunners
    /\ \E k \in 1..Len(runners) : Eligible(runners[k])

\* C10: in a scale-down batch whose removals all succeed, every runner removed
\* is at least as old (by CreatedAt) as every eligible (idle or running) runner
\* of the list the batch started from that it left in place, whatever order
\* the list came in.
C10_FIFORemoval ==
    (BatchRan /\ tick.action = ScaleActionDown /\ tick.fails = {}) =>
        LET gone == { tick.removed[k] : k \in 1..Len(tick.removed) } IN
        \A i, j \in 1..Len(tick.pre) :
            (/\ tick.pre[i].ID \in gone
             /\ tick.pre[j].ID \notin gone
             /\ Eligible(tick.pre[j]))
                => tick.pre[i].CreatedAt <= tick.pre[j].CreatedAt

ExecDecided == tick.kind = "exec" /\ tick.outcome = "decided"

\* C11: a tick that executes action up calls CreateRunner exactly
\* desired - current times, whichever of the creates fail; every create that
\* succeeds adds a runner, and a failed one neither ends the batch nor is
\* tried again.
C11_BestEffortScaleUp ==
    (BatchRan /\ tick.action = ScaleActionUp) =>
        /\ tick.creates = decision.DesiredCount - decision.CurrentCount
        /\ tick.created = Cardinality(tick.oks)
        /\ Len(runners) = Len(tick.pre) + Cardinality(tick.oks)

C11_Witness ==
    /\ BatchRan
    /\ tick.action = ScaleActionUp
    /\ tick.creates = 2
    /\ 0 \notin tick.oks
    /\ 1 \in tick.oks

\* the k-th smallest element of a set of numbers
KthSmallest(S, k) == CHOOSE x \in S : Cardinality({ y \in S : y < x }) = k - 1

\* the log after a scale-up batch is the log before it followed by one event
\* per successful create, in batch order, the event of the create with batch
\* index i recording runners_before = c and runners_after = c + i + 1
UpEventsLogged ==
    LET n == Cardinality(tick.oks)
        c == decision.CurrentCount
        base == Len(tick.log0)
    IN  /\ Len(events) = base + n
        /\ SubSeq(events, 1, base) = tick.log0
        /\ \A k \in 1..n :
              /\ events[base + k].Action = "scale_up"
              /\ events[base + k].RunnersBefore = c
              /\ events[base + k].RunnersAfter = c + KthSmallest(tick.oks, k) + 1

\* C12: in a scale-up batch from c runners every successful create appends
\* exactly one event to the event log and a failed create none; the event of
\* the create with batch index i has runners_before = c and
\* runners_after = c + i + 1.
C12_ScaleUpEvents ==
    (BatchRan /\ tick.action = ScaleActionUp) => UpEventsLogged

\* what holds of C12: the same with the store's Enabled flag set
ScaleUpEventsWhenEnabled ==
    (BatchRan /\ tick.action = ScaleActionUp /\ storeCfg.Enabled) => UpEventsLogged

\* C13: with DryRun set, a tick whose decision is up or down makes no call of
\* CreateRunner or RemoveRunner, appends no event, and leaves lastScaleUpTime
\* and lastScaleDownTime as they were; the decision is returned and the
\* hysteresis counters are reset.
C13_DryRun ==
    (ExecDecided /\ cfg.DryRun /\ decision.Action # ScaleActionNone) =>
        /\ tick.creates = 0
        /\ tick.removes = 0
        /\ tick.passed = <<>>
        /\ events = tick.log0
        /\ runners = tick.pre
        /\ lastScaleUpTime = tick.up0
        /\ lastScaleDownTime = tick.down0
        /\ scaleUpCounter = 0
        /\ scaleDownCounter = 0

C13_Witness ==
    /\ ExecDecided
    /\ cfg.DryRun
    /\ decision.Action = ScaleActionUp
    /\ decision.DesiredCount > decision.CurrentCount
    /\ storeCfg.Enabled

(***************************************************************************)
(* SpecLE: two processes run LeaderElector.Run on one lock file path, with *)
(* the callbacks cmd/zeno/main.go passes: on_acquire sets the gauge and    *)
(* calls ctrl.Run(ctx) with the context of le.Run; on_release sets the     *)
(* gauge.  A flock(2) lock belongs to the open file description it was     *)
(* taken through: LOCK_EX|LOCK_NB on a second description of the same file *)
(* is refused with EWOULDBLOCK even when the first belongs to the caller.   *)
(* The lock file may be replaced (removed and created again) from outside. *)
(***************************************************************************)
\* mutant: flock that grants LOCK_EX whoever holds the file
LockFreeShared(i) == TRUE

\* flock(fd, LOCK_EX|LOCK_NB) on file i succeeds (part_007:97)
LockFree(i) == flock[i] = NoProc

\* the files' locks after process p closes its descriptor on file i
Closed(f, p, i) ==
    [j \in DOMAIN f |-> IF j = i /\ f[j] = p THEN NoProc ELSE f[j]]

\* mutant: a lock that outlives the process that took it
DescriptorsKept(f, p) == f

\* the files' locks after process p ends: the kernel closes its descriptors,
\* which drops the flock locks taken through them
DescriptorsClosed(f, p) ==
    [j \in DOMAIN f |-> IF f[j] = p THEN NoProc ELSE f[j]]

leCtlUnchanged == UNCHANGED <<ctlVars, stVars, ghVars, pvVars, cfVars, mgVars, ioVars>>

\* the case <-ticker.C of le.Run with tryAcquireLock (part_007:64-80, 89-120)
Tick(p) ==
    /\ leEnabled
    /\ stage[p] = "run"
    /\ \/ \* open, flock or the PID write fails: the new descriptor is closed,
          \* the error is logged and the loop continues
          /\ lastTry' = [lastTry EXCEPT ![p] = "error"]
          /\ UNCHANGED <<flock, lockFd, isLeader, leading, newLoops>>
       \/ \* EWOULDBLOCK: not acquired
          /\ ~LockFree(inode)
          /\ lastTry' = [lastTry EXCEPT ![p] = "busy"]
          /\ isLeader' = [isLeader EXCEPT ![p] = FALSE]
          /\ leading' = [leading EXCEPT ![p] = IF isLeader[p] THEN FALSE ELSE @]
          /\ UNCHANGED <<flock, lockFd, newLoops>>
       \/ \* acquired: the old descriptor is closed, the new one kept
          /\ LockFree(inode)
          /\ lastTry' = [lastTry EXCEPT ![p] = "acquired"]
          /\ flock' = [Closed(flock, p, lockFd[p]) EXCEPT ![inode] = p]
          /\ lockFd' = [lockFd EXCEPT ![p] = inode]
          /\ isLeader' = [isLeader EXCEPT ![p] = TRUE]
          /\ leading' = [leading EXCEPT ![p] = IF isLeader[p] THEN @ ELSE TRUE]
          /\ newLoops' = [newLoops EXCEPT ![p] = IF isLeader[p] THEN @ ELSE @ + 1]
    /\ UNCHANGED <<inode, ctxDone, stage, idleLoops, busyLoops, leEnabled, leObs>>
    /\ leCtlUnchanged

\* le.Run with leader election disabled (part_007:39-45): the callback runs
\* in le.Run's own goroutine
RunDisabled(p) ==
    /\ ~leEnabled
    /\ stage[p] = "run"
    /\ isLeader' = [isLeader EXCEPT ![p] = TRUE]
    /\ leading' = [leading EXCEPT ![p] = TRUE]
    /\ newLoops' = [newLoops EXCEPT ![p] = @ + 1]
    /\ stage' = [stage EXCEPT ![p] = "callback"]
    /\ UNCHANGED <<inode, flock, lockFd, ctxDone, idleLoops, busyLoops,
                   leEnabled, lastTry, leObs>>
    /\ leCtlUnchanged

\* the shutdown signal: main cancels the context (main.go:127-130)
Cancel(p) ==
    /\ stage[p] \in {"run", "callback"}
    /\ ~ctxDone[p]
    /\ ctxDone' = [ctxDone EXCEPT ![p] = TRUE]
    /\ UNCHANGED <<inode, flock, lockFd, isLeader, leading, stage, newLoops,
                   idleLoops, busyLoops, leEnabled, lastTry, leObs>>
    /\ leCtlUnchanged

\* the case <-ctx.Done() of le.Run up to the call of onStopLeading
\* (part_007:57-59) with release (part_007:122-129)
Shutdown(p) ==
    /\ leEnabled
    /\ stage[p] = "run"
    /\ ctxDone[p]
    /\ IF isLeader[p]
       THEN /\ flock' = Closed(flock, p, lockFd[p])
            /\ lockFd' = [lockFd EXCEPT ![p] = NoFd]
            /\ stage' = [stage EXCEPT ![p] = "releasing"]
       ELSE /\ stage' = [stage EXCEPT ![p] = "stopped"]
            /\ UNCHANGED <<flock, lockFd>>
    /\ UNCHANGED <<inode, isLeader, leading, ctxDone, newLoops, idleLoops,
                   busyLoops, leEnabled, lastTry, leObs>>
    /\ leCtlUnchanged

\* onStopLeading(ctx) of the shutdown case and the return (part_007:60-62)
StopLeading(p) ==
    /\ stage[p] = "releasing"
    /\ leading' = [leading EXCEPT ![p] = FALSE]
    /\ stage' = [stage EXCEPT ![p] = "stopped"]
    /\ UNCHANGED <<inode, flock, lockFd, isLeader, ctxDone, newLoops, idleLoops,
                   busyLoops, leEnabled, lastTry, leObs>>
    /\ leCtlUnchanged

\* a Controller.Run enters reconcile: the initial reconcile of a Run just
\* called (controller.go:80-83), or the case <-ticker.C of a Run in its loop
\* (controller.go:93-97)
StartReconcile(p) ==
    /\ stage[p] # "exited"
    /\ \/ /\ newLoops[p] > 0
          /\ newLoops' = [newLoops EXCEPT ![p] = @ - 1]
          /\ UNCHANGED <<idleLoops, leObs>>
       \/ /\ idleLoops[p] > 0
          /\ idleLoops' = [idleLoops EXCEPT ![p] = @ - 1]
          /\ leObs' = [leObs EXCEPT ![p] = @ \/ (leEnabled /\ ~leading[p] /\ ~ctxDone[p])]
          /\ UNCHANGED newLoops
    /\ busyLoops' = [busyLoops EXCEPT ![p] = @ + 1]
    /\ UNCHANGED <<inode, flock, lockFd, isLeader, leading, ctxDone, stage,
                   leEnabled, lastTry>>
    /\ leCtlUnchanged

\* reconcile returns and the Run loop waits in its select (controller.go:88-98)
EndReconcile(p) ==
    /\ busyLoops[p] > 0
    /\ busyLoops' = [busyLoops EXCEPT ![p] = @ - 1]
    /\ idleLoops' = [idleLoops EXCEPT ![p] = @ + 1]
    /\ UNCHANGED <<inode, flock, lockFd, isLeader, leading, ctxDone, stage,
                   newLoops, leEnabled, lastTry, leObs>>
    /\ leCtlUnchanged

\* the case <-ctx.Done() of Controller.Run (controller.go:90-92); with leader
\* election disabled le.Run then passes <-ctx.Done() and returns
LoopStops(p) ==
    /\ idleLoops[p] > 0
    /\ ctxDone[p]
    /\ idleLoops' = [idleLoops EXCEPT ![p] = @ - 1]
    /\ stage' = [stage EXCEPT ![p] = IF @ = "callback" THEN "stopped" ELSE @]
    /\ UNCHANGED <<inode, flock, lockFd, isLeader, leading, ctxDone, newLoops,
                   busyLoops, leEnabled, lastTry, leObs>>
    /\ leCtlUnchanged

\* the process ends (main returns, or the process is killed): the kernel
\* closes its descriptors, which drops its locks
Exit(p) ==
    /\ stage[p] # "exited"
    /\ stage' = [stage EXCEPT ![p] = "exited"]
    /\ flock' = DescriptorsClosed(flock, p)
    /\ lockFd' = [lockFd EXCEPT ![p] = NoFd]
    /\ isLeader' = [isLeader EXCEPT ![p] = FALSE]
    /\ leading' = [leading EXCEPT ![p] = FALSE]
    /\ newLoops' = [newLoops EXCEPT ![p] = 0]
    /\ idleLoops' = [idleLoops EXCEPT ![p] = 0]
    /\ busyLoops' = [busyLoops EXCEPT ![p] = 0]
    /\ UNCHANGED <<inode, ctxDone, leEnabled, lastTry, leObs>>
    /\ leCtlUnchanged

\* the lock file is removed and the next open(O_CREAT) creates a new file
ReplaceFile ==
    /\ leEnabled
    /\ inode < MaxReplacements
    /\ inode' = inode + 1
    /\ flock' = [j \in 0..(inode + 1) |-> IF j <= inode THEN flock[j] ELSE NoProc]
    /\ UNCHANGED <<lockFd, isLeader, leading, ctxDone, stage, newLoops,
                   idleLoops, busyLoops, leEnabled, lastTry, leObs>>
    /\ leCtlUnchanged

InitLE ==
    /\ cfg \in { c \in ExecConfigs :
                    c.MinRunners = 0 /\ c.MaxRunners = MaxMaxRunners /\ ~c.DryRun }
    /\ ControllerConstructed
    /\ runners = <<>>
    /\ LEConstructed
    /\ leEnabled \in BOOLEAN
    /\ StoreIdle
    /\ ClientIdle
    /\ ProviderIdle
    /\ ConfigIdle
    /\ ManagerIdle
    /\ StoreIOIdle

NextLE ==
    \/ \E p \in Procs : Tick(p)
    \/ \E p \in Procs : RunDisabled(p)
    \/ \E p \in Procs : Cancel(p)
    \/ \E p \in Procs : Shutdown(p)
    \/ \E p \in Procs : StopLeading(p)
    \/ \E p \in Procs : StartReconcile(p)
    \/ \E p \in Procs : EndReconcile(p)
    \/ \E p \in Procs : LoopStops(p)
    \/ \E p \in Procs : Exit(p)
    \/ ReplaceFile

SpecLE == InitLE /\ [][NextLE]_vars

C8_LeaseLossStopsScaling ==
    \A p \in Procs : ~leObs[p]

\* C9: within a process at most one Controller.Run is active, whatever
\* acquisitions, losses and lock-file replacements happened, and so no two
\* executions of reconcile overlap.
C9_SingleRunLoop ==
    \A p \in Procs :
        /\ newLoops[p] + idleLoops[p] + busyLoops[p] <= 1
        /\ busyLoops[p] <= 1

\* a retry tick of p whose system calls succeed: it acquires the lock or is
\* refused with EWOULDBLOCK
TickAnswered(p) == Tick(p) /\ lastTry'[p] # "error"

\* SpecLE with retry tickers that keep firing (time.NewTicker, part_007:52)
\* and system calls that do not fail for ever
SpecLELive == SpecLE /\ \A p \in Procs : WF_vars(TickAnswered(p))

\* p ended after its latest retry tick had acquired the lock
LeaderEnded(p) ==
    /\ leEnabled
    /\ stage[p] = "exited"
    /\ lastTry[p] = "acquired"

\* p ended as the leader and q is a follower: in the retry loop with a live
\* context, and it has not acquired the lock yet
LeaderDied(p, q) ==
    /\ p # q
    /\ LeaderEnded(p)
    /\ stage[q] = "run"
    /\ ~ctxDone[q]
    /\ lockFd[q] = NoFd

\* q has fired on_acquire, or has left the retry loop
FollowerLeads(q) ==
    \/ leading[q]
    \/ stage[q] # "run"
    \/ ctxDone[q]

Record ==
    /\ Len(recorded) < MaxRecorded
    /\ \E action \in {"scale_up", "scale_down"}, persistOK \in BOOLEAN :
          LET k == Len(recorded) + 1
              event == ScaleEvent(action, [QueueDepth |-> 0, CurrentCount |-> k - 1], k, now)
          IN  /\ (~storeCfg.Enabled => persistOK)
              /\ recorded' = Append(recorded, event)
              /\ events' = RecordScaleEvent(events, event)
              /\ storeFile' = IF storeCfg.Enabled /\ persistOK
                              THEN RecordScaleEvent(events, event)
                              ELSE storeFile
              /\ tick' = [kind |-> "store", op |-> "RecordScaleEvent",
                          count |-> 0, result |-> <<>>]
    /\ UNCHANGED <<cfg, lastScaleUpTime, lastScaleDownTime, scaleUpCounter,
                   scaleDownCounter, queueHistory, now, runners, decision>>
    /\ UNCHANGED <<storeCfg, leVars, ghVars, pvVars, cfVars, mgVars, ioVars>>

\* s.GetRecentEvents(count) or s.GetAllEvents() is called and its result kept
ReadEvents ==
    /\ \/ \E count \in 0..(MaxMaxEvents + 1) :
             tick' = [kind |-> "store", op |-> "GetRecentEvents",
                      count |-> count, result |-> GetRecentEvents(count)]
       \/ tick' = [kind |-> "store", op |-> "GetAllEvents",
                   count |-> 0, result |-> GetAllEvents]
    /\ UNCHANGED <<cfg, lastScaleUpTime, lastScaleDownTime, scaleUpCounter,
                   scaleDownCounter, queueHistory, now, runners, decision>>
    /\ UNCHANGED <<stVars, leVars, ghVars, pvVars, cfVars, mgVars, ioVars>>

InitStore ==
    /\ cfg \in { c \in ExecConfigs :
                    c.MinRunners = 0 /\ c.MaxRunners = MaxMaxRunners /\ ~c.DryRun }
    /\ ControllerConstructed
    /\ runners = <<>>
    /\ LEConstructed
    /\ leEnabled = TRUE
    /\ storeCfg \in [Enabled : BOOLEAN, MaxEvents : 0..MaxMaxEvents]
    /\ StoreConstructed
    /\ ClientIdle
    /\ ProviderIdle
    /\ ConfigIdle
    /\ ManagerIdle
    /\ StoreIOIdle

NextStore == Record \/ ReadEvents

SpecStore == InitStore /\ [][NextStore]_vars

(***************************************************************************)
(* Claims on the store (SpecStore)                                         *)
(***************************************************************************)
\* the last n elements of a sequence
LastN(a, n) == SubSeq(a, Len(a) - n + 1, Len(a))

\* C14: once MaxEvents + k events (k >= 0) have been passed to
\* RecordScaleEvent on an initially empty log, the log holds exactly the last
\* MaxEvents of them, in the order they were passed.
C14_EventLogRing ==
    Len(recorded) >= storeCfg.MaxEvents
        => events = LastN(recorded, storeCfg.MaxEvents)

\* what holds of C14: the same with the store's Enabled flag set
EventLogRingWhenEnabled ==
    (storeCfg.Enabled /\ Len(recorded) >= storeCfg.MaxEvents)
        => events = LastN(recorded, storeCfg.MaxEvents)

\* C15: with persistence disabled, an event passed to RecordScaleEvent is in
\* the in-memory log: it is the last event GetAllEvents returns and the one
\* GetRecentEvents(1) returns.
C15_InMemoryByDefault ==
    (~storeCfg.Enabled /\ storeCfg.MaxEvents >= 1 /\ recorded # <<>>) =>
        /\ GetAllEvents # <<>>
        /\ GetAllEvents[Len(GetAllEvents)] = recorded[Len(recorded)]
        /\ GetRecentEvents(1) = <<recorded[Len(recorded)]>>

(***************************************************************************)
(* SpecGH: two callers of one github.Client.  Each caller makes one call  *)
(* of GetQueuedWorkflowJobs; the calls may overlap, the clock advances     *)
(* between any two steps, and a caller's context may be cancelled while    *)
(* its call is in progress.                                                *)
(***************************************************************************)

\* the values upstream may answer with
UpstreamValues == 1..MaxUpstream

\* the end of one iteration of the retry loop that failed with err
\* (client.go:120-131): the next iteration, or the error after the loop
AfterFailure(c, err) ==
    LET c1 == [c EXCEPT !.attempt = c.attempt + 1,
                        !.requests = c.requests + 1,
                        !.fails = c.fails + 1,
                        !.lastErr = err,
                        !.afterMalformed = c.afterMalformed \/ c.lastErr = "malformed"]
    IN  IF ShouldRetry(err) /\ AttemptAllowed(c1.attempt)
        THEN c1
        ELSE [c1 EXCEPT !.pc = "done", !.result = "error"]

\* GetQueuedWorkflowJobs up to the cache check (client.go:70-76): a hit
\* returns the cached value, a miss enters fetchQueuedJobsWithRetry
GHCall(p) ==
    /\ call[p].pc = "idle"
    /\ LET got == GetCachedQueue(now)
           c0  == [call[p] EXCEPT !.at = now,
                                  !.pop = populated,
                                  !.age = Since(now, cache.timestamp),
                                  !.after = { q \in Callers : call[q].pc = "done" }]
       IN  call' = [call EXCEPT ![p] =
               IF got.ok
               THEN [c0 EXCEPT !.pc = "done", !.result = "hit", !.value = got.value]
               ELSE IF AttemptAllowed(0)
                    THEN [c0 EXCEPT !.pc = "fetching"]
                    ELSE [c0 EXCEPT !.pc = "done", !.result = "error"]]
    /\ UNCHANGED <<ghCfg, cache, populated>>
    /\ UNCHANGED <<ctlVars, leVars, stVars, pvVars, cfVars, mgVars, ioVars>>

\* one iteration of the loop of fetchQueuedJobsWithRetry (client.go:103-128)
\* and, when it succeeds, the rest of GetQueuedWorkflowJobs (client.go:84-86)
GHAttempt(p) ==
    /\ call[p].pc = "fetching"
    /\ LET c == call[p] IN
       \/ \* the select of the backoff takes ctx.Done (client.go:111-115)
          /\ c.attempt > 0
          /\ c.cancelled
          /\ call' = [call EXCEPT ![p] = [c EXCEPT !.pc = "done", !.result = "ctx"]]
          /\ UNCHANGED <<cache, populated>>
       \/ \* the request succeeds: return the value and store it
          /\ ~c.cancelled
          /\ \E v \in UpstreamValues :
                /\ call' = [call EXCEPT ![p] =
                       [c EXCEPT !.pc = "done", !.result = "value", !.value = v,
                                 !.requests = c.requests + 1,
                                 !.afterMalformed =
                                     c.afterMalformed \/ c.lastErr = "malformed"]]
                /\ cache' = [queuedJobs |-> v, timestamp |-> now]
                /\ populated' = TRUE
       \/ \* the request fails; with a cancelled context it fails in the transport
          /\ \E err \in (IF c.cancelled THEN {"network"} ELSE FetchErrors) :
                call' = [call EXCEPT ![p] = AfterFailure(c, err)]
          /\ UNCHANGED <<cache, populated>>
    /\ UNCHANGED ghCfg
    /\ UNCHANGED <<ctlVars, leVars, stVars, pvVars, cfVars, mgVars, ioVars>>

\* the caller's context is cancelled while the call is in progress
GHCancel(p) ==
    /\ call[p].pc = "fetching"
    /\ ~call[p].cancelled
    /\ call' = [call EXCEPT ![p].cancelled = TRUE]
    /\ UNCHANGED <<ghCfg, cache, populated>>
    /\ UNCHANGED <<ctlVars, leVars, stVars, pvVars, cfVars, mgVars, ioVars>>

\* time passes
GHAdvance ==
    /\ now < StartTime + MaxClock
    /\ now' = now + 1
    /\ UNCHANGED <<cfg, lastScaleUpTime, lastScaleDownTime, scaleUpCounter,
                   scaleDownCounter, queueHistory, runners, decision, tick>>
    /\ UNCHANGED <<leVars, stVars, ghVars, pvVars, cfVars, mgVars, ioVars>>

\* the configurations Validate accepts (part_005:395-400): MaxRetries >= 0 and
\* CacheTTL >= 0, up to the largest Duration
GitHubConfigs ==
    [MaxRetries : 0..MaxMaxRetries, CacheTTL : (0..MaxCacheTTL) \cup {MaxDuration}]

InitGH ==
    /\ cfg \in { c \in ExecConfigs :
                    c.MinRunners = 0 /\ c.MaxRunners = MaxMaxRunners /\ ~c.DryRun }
    /\ ControllerConstructed
    /\ runners = <<>>
    /\ LEConstructed
    /\ leEnabled = TRUE
    /\ StoreIdle
    /\ ghCfg \in GitHubConfigs
    /\ ClientConstructed
    /\ ProviderIdle
    /\ ConfigIdle
    /\ ManagerIdle
    /\ StoreIOIdle

NextGH ==
    \/ \E p \in Callers : GHCall(p)
    \/ \E p \in Callers : GHAttempt(p)
    \/ \E p \in Callers : GHCancel(p)
    \/ GHAdvance

SpecGH == InitGH /\ [][NextGH]_vars

\* the call of caller p has returned from the cache
Hit(p) == call[p].result = "hit"

\* C16 Cache validity: a call returns a value from the cache only when a
\* sample was stored by a successful upstream fetch and the sample's age is at
\* most CacheTTL; a never-populated cache is never returned as a hit.
C16_CacheValidity ==
    \A p \in Callers :
        Hit(p) => /\ call[p].pop
                  /\ call[p].age <= ghCfg.CacheTTL

\* Cache validity for every CacheTTL below the largest Duration
CacheValidityBelowMaxTTL ==
    ghCfg.CacheTTL < MaxDuration => C16_CacheValidity

\* the call of caller p has returned a value and upstream never failed it
Answered(p) ==
    /\ call[p].result \in {"hit", "value"}
    /\ call[p].fails = 0

\* the calls of p and q were made within CacheTTL of each other
WithinTTL(p, q) ==
    /\ call[p].at - call[q].at <= ghCfg.CacheTTL
    /\ call[q].at - call[p].at <= ghCfg.CacheTTL

\* a call made more than CacheTTL after the last stored sample goes upstream
StaleCallsUpstream ==
    \A p \in Callers :
        (call[p].pc # "idle" /\ call[p].pop /\ call[p].age > ghCfg.CacheTTL) =>
            /\ ~Hit(p)
            /\ call[p].pc = "done" => call[p].requests >= 1

\* C17 Cache TTL: when upstream answers successfully, two calls made within
\* CacheTTL of each other, sequential or overlapping, cause at most one
\* upstream request in total; a call made more than CacheTTL after the last
\* stored sample causes an upstream request.
C17_CacheTTL ==
    /\ \A p, q \in Callers :
          (p # q /\ Answered(p) /\ Answered(q) /\ WithinTTL(p, q)) =>
              call[p].requests + call[q].requests <= 1
    /\ StaleCallsUpstream

\* Cache TTL for sequential calls: the second is made after the first returned
CacheTTLSequential ==
    /\ \A p, q \in Callers :
          (p # q /\ Answered(p) /\ Answered(q) /\ WithinTTL(p, q)
                 /\ p \in call[q].after) =>
              call[p].requests + call[q].requests <= 1
    /\ StaleCallsUpstream

\* C18 Retry budget: a call whose every upstream attempt failed and whose
\* context was not cancelled returns an error after exactly MaxRetries + 1
\* attempts; a success on any attempt ends the call with that value, and a
\* call still retrying has only failures behind it and attempts left.
C18_RetryBudget ==
    \A p \in Callers :
        /\ (call[p].result = "error" /\ ~call[p].cancelled) =>
              /\ call[p].requests = ghCfg.MaxRetries + 1
              /\ call[p].fails = call[p].requests
        /\ call[p].result = "value" =>
              /\ call[p].requests = call[p].fails + 1
              /\ call[p].requests <= ghCfg.MaxRetries + 1
              /\ call[p].value \in UpstreamValues
        /\ call[p].pc = "fetching" =>
              /\ call[p].fails = call[p].requests
              /\ call[p].requests <= ghCfg.MaxRetries

\* one call has exhausted a budget of at least one retry, the other has
\* succeeded on a retry
C18_Witness ==
    \E p, q \in Callers :
        /\ ghCfg.MaxRetries >= 1
        /\ call[p].result = "error" /\ ~call[p].cancelled
        /\ call[p].requests = ghCfg.MaxRetries + 1
        /\ call[q].result = "value" /\ call[q].fails >= 1

\* C19 Do-not-retry policy: a malformed response ends the call with the error
\* and no further attempt is made, whereas a call that ends with a network or
\* rate-limit error has used its whole retry budget.
C19_MalformedTerminal ==
    \A p \in Callers :
        /\ ~call[p].afterMalformed
        /\ call[p].lastErr = "malformed" =>
              (call[p].pc = "done" /\ call[p].result = "error")
        /\ (call[p].result = "error" /\ call[p].lastErr \in {"network", "rate_limit"}) =>
              call[p].requests = ghCfg.MaxRetries + 1

\* the part of the policy about network and rate-limit errors
NetworkErrorsRetried ==
    \A p \in Callers :
        (call[p].result = "error" /\ call[p].lastErr \in {"network", "rate_limit"}) =>
            call[p].requests = ghCfg.MaxRetries + 1

(***************************************************************************)
(* SpecProv: RemoveRunner calls, one after another, on a Docker or an EC2  *)
(* provider whose runners exist or not, while terminated EC2 instances     *)
(* drop out of DescribeInstances.                                          *)
(***************************************************************************)
pvOthersUnchanged == UNCHANGED <<ctlVars, leVars, stVars, ghVars, cfVars, mgVars, ioVars>>

\* the record of a RemoveRunner call
Removal(id, graceful, outcome, after) ==
    [id |-> id, graceful |-> graceful, found |-> GetRunnerFinds(id),
     outcome |-> outcome, before |-> instances, after |-> after]

\* EC2Provider.RemoveRunner (ec2.go:190-216): Lock, GetRunner, whose error is
\* returned, TerminateInstances, Unlock
EC2RemoveRunner(id, graceful) ==
    /\ pvKind = "ec2"
    /\ ~muLocked
    /\ \/ /\ ~GetRunnerFinds(id)
          /\ removal' = Removal(id, graceful, "error", instances)
          /\ UNCHANGED instances
       \/ /\ GetRunnerFinds(id)
          /\ \E terminateOK \in BOOLEAN :
                IF terminateOK
                THEN /\ instances' = [instances EXCEPT ![id] = "terminated"]
                     /\ removal' = Removal(id, graceful, "nil", instances')
                ELSE /\ removal' = Removal(id, graceful, "error", instances)
                     /\ UNCHANGED instances
    /\ UNCHANGED <<pvKind, muLocked, useSpot, creation>>
    /\ pvOthersUnchanged

\* DockerProvider.RemoveRunner (ec2.go:747-789): Lock, then GetRunner, which
\* calls ListRunners, which calls RLock on the mutex this call holds
DockerRemoveRunner(id, graceful) ==
    /\ pvKind = "docker"
    /\ IF muLocked
       THEN \* Lock waits for a holder that never unlocks
            /\ removal' = Removal(id, graceful, "blocked", instances)
            /\ UNCHANGED <<instances, muLocked>>
       ELSE /\ muLocked' = TRUE
            /\ IF RLockWaits(muLocked')
               THEN /\ removal' = Removal(id, graceful, "blocked", instances)
                    /\ UNCHANGED instances
               ELSE IF ~GetRunnerFinds(id)
               THEN /\ removal' = Removal(id, graceful, "error", instances)
                    /\ UNCHANGED instances
               ELSE /\ instances' = [instances EXCEPT ![id] = "gone"]
                    /\ removal' = Removal(id, graceful, "nil", instances')
    /\ UNCHANGED <<pvKind, useSpot, creation>>
    /\ pvOthersUnchanged

\* a terminated EC2 instance drops out of DescribeInstances
InstanceExpires ==
    /\ \E id \in RunnerIDs :
          /\ instances[id] = "terminated"
          /\ instances' = [instances EXCEPT ![id] = "gone"]
    /\ UNCHANGED <<pvKind, muLocked, removal, useSpot, creation>>
    /\ pvOthersUnchanged

\* the record of a CreateRunner call for the fresh id, and the provider after it
Created(id, outcome, left) ==
    /\ creation' = [id |-> id, outcome |-> outcome, left |-> left]
    /\ instances' = [instances EXCEPT ![id] = left]

\* createOnDemandInstance (ec2.go:232-266): RunInstances creates the instance
\* with its tags or fails
CreateOnDemandInstance(id) ==
    \E runOK \in BOOLEAN :
        IF runOK THEN Created(id, "nil", "running") ELSE Created(id, "error", "gone")

\* createSpotInstance (ec2.go:272-349): the request, the wait for its
\* fulfilment, the description of the fulfilled request, CreateTags
CreateSpotInstance(id) ==
    \E step \in {"request", "wait", "describe", "tag", "done"} :
        CASE step = "request"  -> Created(id, "error", "gone")
          [] step = "wait"     -> Created(id, "error", "gone")
          [] step = "describe" -> \* the request is fulfilled, the instance runs
                                  Created(id, "error", "untagged")
          [] step = "tag"      -> \* CreateTags fails: logged, instance id returned
                                  Created(id, "nil", "untagged")
          [] step = "done"     -> Created(id, "nil", "running")

\* EC2Provider.CreateRunner (ec2.go:115-183)
EC2CreateRunner(id) ==
    /\ pvKind = "ec2"
    /\ ~muLocked
    /\ instances[id] = "gone"
    /\ IF useSpot THEN CreateSpotInstance(id) ELSE CreateOnDemandInstance(id)
    /\ UNCHANGED <<pvKind, muLocked, removal, useSpot>>
    /\ pvOthersUnchanged

\* DockerProvider.CreateRunner (ec2.go:663-745): Lock, pull, ContainerCreate
\* with the labels, ContainerStart, and on a failed start ContainerRemove,
\* whose error is dropped
DockerCreateRunner(id) ==
    /\ pvKind = "docker"
    /\ instances[id] = "gone"
    /\ IF muLocked
       THEN /\ creation' = [id |-> id, outcome |-> "blocked", left |-> "gone"]
            /\ UNCHANGED instances
       ELSE \E step \in {"pull", "create", "start", "cleanup", "done"} :
               CASE step = "pull"    -> Created(id, "error", "gone")
                 [] step = "create"  -> Created(id, "error", "gone")
                 [] step = "start"   -> Created(id, "error", "gone")
                 [] step = "cleanup" -> \* the start and the removal both fail
                                        Created(id, "error", "created")
                 [] step = "done"    -> Created(id, "nil", "running")
    /\ UNCHANGED <<pvKind, muLocked, removal, useSpot>>
    /\ pvOthersUnchanged

InitProv ==
    /\ cfg \in { c \in ExecConfigs :
                    c.MinRunners = 0 /\ c.MaxRunners = MaxMaxRunners /\ ~c.DryRun }
    /\ ControllerConstructed
    /\ runners = <<>>
    /\ LEConstructed
    /\ leEnabled = TRUE
    /\ StoreIdle
    /\ ghCfg = [MaxRetries |-> MaxMaxRetries, CacheTTL |-> MaxCacheTTL]
    /\ ClientConstructed
    /\ pvKind \in {"docker", "ec2"}
    /\ instances \in [RunnerIDs -> {"running", "gone"}]
    /\ muLocked = FALSE
    /\ removal = NoRemoval
    /\ useSpot \in BOOLEAN
    /\ (pvKind = "docker" => ~useSpot)
    /\ creation = NoCreation
    /\ ConfigIdle
    /\ ManagerIdle
    /\ StoreIOIdle

NextProv ==
    \/ \E id \in RunnerIDs, graceful \in BOOLEAN : EC2RemoveRunner(id, graceful)
    \/ \E id \in RunnerIDs, graceful \in BOOLEAN : DockerRemoveRunner(id, graceful)
    \/ \E id \in RunnerIDs : EC2CreateRunner(id)
    \/ \E id \in RunnerIDs : DockerCreateRunner(id)
    \/ InstanceExpires

SpecProv == InitProv /\ [][NextProv]_vars

\* C20 Idempotent remove: RemoveRunner for a runner id that is absent from
\* the provider returns nil and changes nothing, for both values of graceful.
C20_IdempotentRemove ==
    (removal.outcome # "none" /\ ~removal.found) =>
        /\ removal.outcome = "nil"
        /\ removal.after = removal.before

\* what RemoveRunner does for an absent id: the EC2 provider returns an
\* error, the Docker provider never returns; neither changes anything
RemoveAbsentFails ==
    (removal.outcome # "none" /\ ~removal.found) =>
        /\ removal.outcome = (IF pvKind = "ec2" THEN "error" ELSE "blocked")
        /\ removal.after = removal.before

\* C24 No caller blocks indefinitely: every RemoveRunner call a tick issues
\* returns with success or an error, the Docker provider's included, and
\* leaves the provider's mutex free for the calls after it.
C24_NoCallerBlocks ==
    /\ removal.outcome # "blocked"
    /\ ~muLocked

\* the EC2 provider's RemoveRunner always returns and unlocks
EC2RemoveReturns ==
    pvKind = "ec2" => (removal.outcome # "blocked" /\ ~muLocked)

\* C25 No orphans: a resource that a CreateRunner call leaves in existence,
\* whether it returned a runner or an error, carries the managed-by marker
\* and the runner id, so that ListRunners returns it; a create whose tagging
\* fails completes the tagging or destroys the resource.
C25_NoOrphans ==
    creation.outcome \in {"nil", "error"} =>
        /\ creation.left # "untagged"
        /\ creation.outcome = "nil" => creation.left \in {"running", "created"}

\* the on-demand path and the Docker path leave no resource without markers
NoOrphansOffSpot ==
    (creation.outcome \in {"nil", "error"} /\ ~useSpot) =>
        creation.left # "untagged"

(***************************************************************************)
(* SpecConfig: Load validates a configuration read from file and           *)
(* environment; a configuration it accepts is handed to the GitHub client, *)
(* which builds its request URL from it.                                   *)
(***************************************************************************)
cfOthersUnchanged == UNCHANGED <<ctlVars, leVars, stVars, ghVars, pvVars, mgVars, ioVars>>

\* the values a string of the configuration takes: unset, or set
Strings == {"", "set"}

\* the configurations Load may read: every combination of the GitHub
\* strings, retry counts and cache lifetimes from -1, scaling parts with
\* runner bounds in either order
Candidates ==
    { [GitHub |-> [Token |-> t, Organization |-> o, Repository |-> r,
                   MaxRetries |-> mr, CacheTTL |-> ttl],
       Scaling |-> sc] :
        t \in Strings, o \in Strings, r \in Strings,
        mr \in -1..MaxMaxRetries, ttl \in -1..MaxCacheTTL,
        sc \in { c \in ScalingConfigs({1}, {0}, {FALSE}, {FALSE}) :
                    c.ScaleDownThreshold = 0 /\ c.ScaleUpThreshold = MaxThreshold } }

\* Load (part_005): Validate is applied to what was read
Load ==
    /\ loadErr = "unloaded"
    /\ loadErr' = ConfigValidate(candidate)
    /\ UNCHANGED <<candidate, scope>>
    /\ cfOthersUnchanged

\* the first fetchQueuedJobs of a client built from an accepted configuration
FirstFetch ==
    /\ loadErr = "nil"
    /\ scope = "none"
    /\ scope' = URLScope(candidate.GitHub)
    /\ UNCHANGED <<candidate, loadErr>>
    /\ cfOthersUnchanged

InitConfig ==
    /\ cfg \in { c \in ExecConfigs :
                    c.MinRunners = 0 /\ c.MaxRunners = MaxMaxRunners /\ ~c.DryRun }
    /\ ControllerConstructed
    /\ runners = <<>>
    /\ LEConstructed
    /\ leEnabled = TRUE
    /\ StoreIdle
    /\ ClientIdle
    /\ ProviderIdle
    /\ candidate \in Candidates
    /\ loadErr = "unloaded"
    /\ scope = "none"
    /\ ManagerIdle
    /\ StoreIOIdle

NextConfig == Load \/ FirstFetch

SpecConfig == InitConfig /\ [][NextConfig]_vars

\* C22 Scope validation: Validate accepts a configuration only if exactly
\* one of organization and repository is set; neither set and both set are
\* each rejected.
C22_ScopeValidation ==
    loadErr = "nil" =>
        (candidate.GitHub.Organization = "") # (candidate.GitHub.Repository = "")

\* the half of the scope validation the source has: neither set is rejected
NeitherScopeRejected ==
    (loadErr # "unloaded" /\ candidate.GitHub.Organization = ""
                          /\ candidate.GitHub.Repository = "")
        => loadErr # "nil"

(***************************************************************************)
(* SpecMgr: goroutines call Add, Remove and Count on one Manager while the *)
(* clock advances; two readings of the clock may be equal.                 *)
(***************************************************************************)
mgOthersUnchanged == UNCHANGED <<ctlVars, leVars, stVars, ghVars, pvVars, cfVars, ioVars>>

\* Manager.Add (manager.go:27-38)
ManagerAdd ==
    /\ mStats.adds < MaxAdds
    /\ LET id == GenerateID IN
       /\ mRunners' = mRunners \cup {id}
       /\ mOrder' = Append(mOrder, id)
       /\ mStats' = [mStats EXCEPT !.adds = @ + 1,
                                   !.collided = @ \/ id \in mRunners]
    /\ UNCHANGED nanos
    /\ mgOthersUnchanged

\* Manager.Remove (manager.go:40-53)
ManagerRemove ==
    /\ mStats.removes + mStats.emptyRemoves < MaxAdds
    /\ IF Len(mOrder) = 0
       THEN /\ mStats' = [mStats EXCEPT !.emptyRemoves = @ + 1]
            /\ UNCHANGED <<mRunners, mOrder>>
       ELSE /\ mOrder' = Tail(mOrder)
            /\ mRunners' = mRunners \ {Head(mOrder)}
            /\ mStats' = [mStats EXCEPT !.removes = @ + 1]
    /\ UNCHANGED nanos
    /\ mgOthersUnchanged

\* Manager.Count (manager.go:55-59)
ManagerCount ==
    /\ mStats' = [mStats EXCEPT !.lastCount = Cardinality(mRunners)]
    /\ UNCHANGED <<mRunners, mOrder, nanos>>
    /\ mgOthersUnchanged

\* the clock's reading changes
NanosAdvance ==
    /\ nanos < MaxNanos
    /\ nanos' = nanos + 1
    /\ UNCHANGED <<mRunners, mOrder, mStats>>
    /\ mgOthersUnchanged

InitMgr ==
    /\ cfg \in { c \in ExecConfigs :
                    c.MinRunners = 0 /\ c.MaxRunners = MaxMaxRunners /\ ~c.DryRun }
    /\ ControllerConstructed
    /\ runners = <<>>
    /\ LEConstructed
    /\ leEnabled = TRUE
    /\ StoreIdle
    /\ ClientIdle
    /\ ProviderIdle
    /\ ConfigIdle
    /\ ManagerIdle
    /\ StoreIOIdle

NextMgr == ManagerAdd \/ ManagerRemove \/ ManagerCount \/ NanosAdvance

SpecMgr == InitMgr /\ [][NextMgr]_vars

\* C26 Runner manager count: after any interleaving of Add, Remove and Count
\* calls, Count() is the number of completed Adds minus the number of Removes
\* that ran on a non-empty manager; every Add registers its runner under an
\* id distinct from all runners present; Remove on an empty manager changes
\* nothing.
C26_ManagerCount ==
    /\ Cardinality(mRunners) = mStats.adds - mStats.removes
    /\ ~mStats.collided
    /\ mStats.lastCount # -1 => mStats.lastCount <= mStats.adds

\* the count is as stated as long as no two Adds read the same clock value
ManagerCountWithoutCollision ==
    ~mStats.collided =>
        /\ Cardinality(mRunners) = mStats.adds - mStats.removes
        /\ Len(mOrder) = Cardinality(mRunners)

(***************************************************************************)
(* SpecStreak: the reconcile loop of Spec with CooldownPeriod 0, no failed *)
(* observation and no time passing, over more ticks: every tick reaches    *)
(* makeScalingDecision, and the observation also counts the up candidates  *)
(* and the down candidates in a row up to and including the tick.          *)
(***************************************************************************)
\* the count of candidates in a row that the previous tick observed
RowBefore(field) == IF field \in DOMAIN tick THEN tick[field] ELSE 0

\* the counts after a tick that is candidate cand
StreakTick(cand) ==
    [rowUp |-> IF cand = "up" THEN Min2(RowBefore("rowUp") + 1, MaxHysteresis + 1)
               ELSE 0,
     rowDown |-> IF cand = "down" THEN Min2(RowBefore("rowDown") + 1, MaxHysteresis + 1)
                 ELSE 0]

\* c.reconcile(ctx) that fetched queue depth q and listed c runners
\* (controller.go:102-163), its batch ending at once
ReconcileStreak(q, c) ==
    LET h == UpdateQueueHistory(queueHistory, q)
        r == MakeScalingDecision(q, c, now, h)
        ran == BatchRuns(r.d, TRUE)
    IN  /\ queueHistory' = h
        /\ decision' = r.d
        /\ scaleUpCounter' = r.up
        /\ scaleDownCounter' = r.down
        /\ lastScaleUpTime' = StampUp(r.d, TRUE, now)
        /\ lastScaleDownTime' = StampDown(r.d, TRUE, now)
        /\ tick' = StreakTick(Candidate(q, c, h)) @@ ObserveDecided(q, c, h, r.d, ran, now)
        /\ UNCHANGED now

StreakTicks ==
    /\ Len(queueHistory) < MaxStreakTicks
    /\ \E q \in LoopQueues, c \in LoopCounts : ReconcileStreak(q, c)
    /\ UNCHANGED <<cfg, runners>>
    /\ UNCHANGED <<leVars, stVars, ghVars, pvVars, cfVars, mgVars, ioVars>>

InitStreak ==
    /\ cfg \in { c \in LoopConfigs : c.CooldownPeriod = 0 }
    /\ ControllerConstructed
    /\ runners = <<>>
    /\ LEConstructed
    /\ leEnabled = TRUE
    /\ StoreIdle
    /\ ClientIdle
    /\ ProviderIdle
    /\ ConfigIdle
    /\ ManagerIdle
    /\ StoreIOIdle

NextStreak == StreakTicks

SpecStreak == InitStreak /\ [][NextStreak]_vars

\* C27 Hysteresis requires consecutive observations: a tick emits action up
\* only if it and the ScaleUpHysteresis - 1 decided ticks immediately before
\* it were all up candidates; a tick in between that is not an up candidate
\* restarts the count.  Symmetrically for action down.
C27_ConsecutiveObservations ==
    TickDecided =>
        /\ decision.Action = ScaleActionUp => tick.rowUp >= cfg.ScaleUpHysteresis
        /\ decision.Action = ScaleActionDown => tick.rowDown >= cfg.ScaleDownHysteresis

\* what the counters do give: an action is emitted by a candidate tick that
\* found its counter one short of the hysteresis setting or beyond it
ActionAtCounter ==
    TickDecided =>
        /\ decision.Action = ScaleActionUp =>
              (tick.cand = "up" /\ tick.up0 + 1 >= cfg.ScaleUpHysteresis)
        /\ decision.Action = ScaleActionDown =>
              (tick.cand = "down" /\ tick.down0 + 1 >= cfg.ScaleDownHysteresis)

(***************************************************************************)
(* SpecDown: the reconcile loop of SpecExec from inventories whose runners *)
(* are in every status of provider.RunnerStatus, listed in the order of    *)
(* their creation, with the store disabled and DryRun off.                 *)
(***************************************************************************)
\* the values of provider.RunnerStatus (ec2.go:508-517)
RunnerStatuses ==
    {StatusPending, StatusProvisioning, StatusRunning, StatusIdle, StatusBusy,
     StatusTerminating, StatusTerminated, StatusFailed}

StatusInventories ==
    UNION { { [k \in 1..n |-> Runner(k, st[k], StartTime - (MaxInventory + 1 - k))] :
                st \in [1..n -> RunnerStatuses] } :
            n \in 0..MaxInventory }

InitDown ==
    /\ cfg \in { c \in ExecConfigs : ~c.DryRun }
    /\ ControllerConstructed
    /\ runners \in StatusInventories
    /\ LEConstructed
    /\ leEnabled = TRUE
    /\ storeCfg = [Enabled |-> FALSE, MaxEvents |-> MaxRecorded]
    /\ StoreConstructed
    /\ ClientIdle
    /\ ProviderIdle
    /\ ConfigIdle
    /\ ManagerIdle
    /\ StoreIOIdle

NextDown == ReconcileExec \/ RunnerStarts

SpecDown == InitDown /\ [][NextDown]_vars

\* the status runner id has in list
StatusIn(list, id) ==
    LET k == CHOOSE j \in 1..Len(list) : list[j].ID = id IN list[k].Status

TargetIDs == { tick.targets[k] : k \in 1..Len(tick.targets) }

\* C28 Scale-down eligibility: a scale-down batch calls RemoveRunner only for
\* runners that are idle or running in the list the batch took; a runner in
\* any other status is never selected, whether or not the call succeeds.
C28_ScaleDownEligibility ==
    (BatchRan /\ tick.action = ScaleActionDown) =>
        \A id \in TargetIDs :
            /\ \E k \in 1..Len(tick.pre) : tick.pre[k].ID = id
            /\ StatusIn(tick.pre, id) \in {StatusIdle, StatusRunning}

\* a batch that went past a terminating runner at the head of the list and
\* called RemoveRunner for the idle runner behind it
C28_Witness ==
    /\ BatchRan
    /\ tick.action = ScaleActionDown
    /\ Len(tick.pre) = 2
    /\ tick.pre[1].Status = StatusTerminating
    /\ tick.pre[2].Status = StatusIdle
    /\ tick.targets = <<tick.pre[2].ID>>
    /\ Len(runners) = 1
    /\ runners[1].Status = StatusTerminating

\* C29 Scale-down selects at most need runners: a scale-down batch with
\* need = current - desired calls RemoveRunner at most need times; a failed
\* remove is not replaced by a call for a further runner.
C29_AtMostNeedRemoves ==
    (BatchRan /\ tick.action = ScaleActionDown) =>
        tick.removes <= decision.CurrentCount - decision.DesiredCount

\* what the loop exit gives: at most need runners are removed, and the calls
\* beyond need are as many as the removes that failed before them
AtMostNeedRemoved ==
    (BatchRan /\ tick.action = ScaleActionDown) =>
        LET need == decision.CurrentCount - decision.DesiredCount
            failed == { id \in TargetIDs : id \in tick.fails }
        IN  /\ Len(tick.removed) <= need
            /\ tick.removes <= need + Cardinality(failed)
            /\ tick.removes = Len(tick.removed) + Cardinality(failed)

(***************************************************************************)
(* SpecStamp: the reconcile loop of Spec with the calls of its batches:    *)
(* every create of a scale-up batch and every remove of a scale-down batch *)
(* may fail.  The batch ends at the clock value of its decision and its    *)
(* ListRunners succeeds; time passes between ticks.                        *)
(***************************************************************************)
\* mutant: a batch that stamps only when one of its calls succeeded
StampAfterSuccessOnly(done) == done > 0

\* scaleUp and scaleDown stamp after their loop, whatever the calls of the
\* loop returned (controller.go:319-321, 382-384)
StampAfterBatch(done) == TRUE

\* the list scaleDown takes when c runners are listed, all of them running
RunningList(c) == [k \in 1..c |-> Runner(k, StatusRunning, StartTime)]

\* the creates or removes of the batch of decision d that succeed, with oks
\* the iterations of scaleUp whose create succeeds and fails the runners
\* whose remove fails
BatchDoes(d, oks, fails) ==
    IF d.Action = ScaleActionUp THEN ScaleUpRun(d, oks, now).created
    ELSE IF d.Action = ScaleActionDown
         THEN Len(ScaleDownLoop(RunningList(d.CurrentCount), 1, <<>>,
                                d.CurrentCount - d.DesiredCount, fails))
         ELSE 0

\* the end of the latest batch none of whose calls succeeded, as the
\* previous tick observed it
VoidBefore(field) == IF field \in DOMAIN tick THEN tick[field] ELSE NoTime

\* observation of a tick of SpecStamp:
\*   done       the calls of its batch that succeeded;  at  its clock value
\*   void       the end of the latest batch none of whose calls succeeded,
\*              NoTime when there was none;  voidAction  that batch's action
\*   sinceVoid  the time from that end to this tick's decision
StampTick(d, ran, done) ==
    [done |-> done, at |-> now,
     void |-> IF ran /\ done = 0 THEN now ELSE VoidBefore("void"),
     voidAction |-> IF ran /\ done = 0 THEN d.Action
                    ELSE IF "voidAction" \in DOMAIN tick THEN tick.voidAction
                    ELSE ScaleActionNone,
     sinceVoid |-> IF VoidBefore("void") = NoTime THEN NoTime
                   ELSE Min2(now - VoidBefore("void"), MaxCooldown)]

\* c.reconcile(ctx) that fetched queue depth q and listed c runners
\* (controller.go:102-163), with scaleUp (controller.go:274-324) and
\* scaleDown (controller.go:326-387)
ReconcileStamp(q, c) ==
    LET h == UpdateQueueHistory(queueHistory, q)
        r == MakeScalingDecision(q, c, now, h)
        d == r.d
        ran == BatchRuns(d, TRUE)
        need == IF d.Action = ScaleActionUp THEN d.DesiredCount - c ELSE 0
        removable == IF d.Action = ScaleActionDown THEN 1..c ELSE {}
    IN  /\ queueHistory' = h
        /\ decision' = d
        /\ scaleUpCounter' = r.up
        /\ scaleDownCounter' = r.down
        /\ \E oks \in SUBSET (0..(need - 1)), fails \in SUBSET removable :
              LET done == BatchDoes(d, oks, fails) IN
              /\ lastScaleUpTime' = IF StampAfterBatch(done)
                                    THEN StampUp(d, TRUE, now) ELSE lastScaleUpTime
              /\ lastScaleDownTime' = IF StampAfterBatch(done)
                                      THEN StampDown(d, TRUE, now) ELSE lastScaleDownTime
              /\ tick' = StampTick(d, ran, done) @@ ObserveDecided(q, c, h, d, ran, now)
        /\ UNCHANGED now

StampTicks ==
    /\ Len(queueHistory) < MaxStampTicks
    /\ \E q \in LoopQueues, c \in LoopCounts : ReconcileStamp(q, c)
    /\ UNCHANGED <<cfg, runners>>
    /\ UNCHANGED <<leVars, stVars, ghVars, pvVars, cfVars, mgVars, ioVars>>

InitStamp ==
    /\ cfg \in { c \in LoopConfigs : /\ c.CooldownPeriod >= 1
                                     /\ c.ScaleUpHysteresis = 1
                                     /\ c.ScaleDownHysteresis = 1 }
    /\ ControllerConstructed
    /\ runners = <<>>
    /\ LEConstructed
    /\ leEnabled = TRUE
    /\ StoreIdle
    /\ ClientIdle
    /\ ProviderIdle
    /\ ConfigIdle
    /\ ManagerIdle
    /\ StoreIOIdle

NextStamp == StampTicks \/ Advance

SpecStamp == InitStamp /\ [][NextStamp]_vars

\* C30 Unconditional cooldown stamp: a scale-up batch sets lastScaleUpTime
\* when it ends whether or not a create succeeded, and a scale-down batch
\* whose list call succeeded sets lastScaleDownTime whether or not a remove
\* succeeded; a tick less than CooldownPeriod after a batch none of whose
\* calls succeeded emits action none.
C30_UnconditionalStamp ==
    TickDecided =>
        /\ (tick.sinceVoid # NoTime /\ tick.sinceVoid < cfg.CooldownPeriod)
              => decision.Action = ScaleActionNone
        /\ decision.Action = ScaleActionUp => lastScaleUpTime = tick.at
        /\ decision.Action = ScaleActionDown => lastScaleDownTime = tick.at

\* a tick that sees the queue at the scale-up threshold and no runners, less
\* than CooldownPeriod after a scale-up batch all of whose creates failed
C30_Witness ==
    /\ TickDecided
    /\ tick.voidAction = ScaleActionUp
    /\ tick.sinceVoid # NoTime
    /\ tick.sinceVoid >= 1
    /\ tick.sinceVoid < cfg.CooldownPeriod
    /\ tick.void = lastScaleUpTime
    /\ decision.QueueDepth >= cfg.ScaleUpThreshold
    /\ decision.CurrentCount = 0
    /\ decision.Action = ScaleActionNone

(***************************************************************************)
(* SpecHistory: the reconcile loop of Spec without cooldown from a queue   *)
(* history that is empty, one short of its capacity, or full.  A history   *)
(* of any length up to the capacity, with the other fields as New left     *)
(* them, is what ticks whose ListRunners failed leave behind.              *)
(***************************************************************************)
\* the histories SpecHistory starts from: the samples count up through the
\* queue depths from offset o
HistoryStarts ==
    { [k \in 1..n |-> (k + o) % (MaxQueue + 1)] :
        n \in {0, HistoryCap - 1, HistoryCap}, o \in 0..MaxQueue }

\* the ticks the previous observation counted
TicksBefore == IF "n" \in DOMAIN tick THEN tick.n ELSE 0

\* observation of a tick of SpecHistory:
\*   n        the ticks so far;  h0  the history before the tick
\*   fetched  whether GetQueuedWorkflowJobs succeeded;  q  what it returned
HistoryTick(fetched, q) ==
    [kind |-> "history", n |-> TicksBefore + 1, h0 |-> queueHistory,
     fetched |-> fetched, q |-> q]

\* c.reconcile(ctx) when GetQueuedWorkflowJobs fails (controller.go:112-115)
HistoryFetchFailed ==
    /\ tick' = HistoryTick(FALSE, 0)
    /\ scaleUpCounter' = CountersKept.up
    /\ scaleDownCounter' = CountersKept.down
    /\ UNCHANGED <<lastScaleUpTime, lastScaleDownTime, queueHistory, decision, now>>

\* c.reconcile(ctx) when ListRunners fails after queue depth q was fetched
\* (controller.go:112-127)
HistoryListFailed(q) ==
    /\ queueHistory' = UpdateQueueHistory(queueHistory, q)
    /\ tick' = HistoryTick(TRUE, q)
    /\ scaleUpCounter' = CountersKept.up
    /\ scaleDownCounter' = CountersKept.down
    /\ UNCHANGED <<lastScaleUpTime, lastScaleDownTime, decision, now>>

\* c.reconcile(ctx) that fetched queue depth q and listed c runners
\* (controller.go:102-163), its batch ending at once
HistoryDecided(q, c) ==
    LET h == UpdateQueueHistory(queueHistory, q)
        r == MakeScalingDecision(q, c, now, h)
    IN  /\ queueHistory' = h
        /\ decision' = r.d
        /\ scaleUpCounter' = r.up
        /\ scaleDownCounter' = r.down
        /\ lastScaleUpTime' = StampUp(r.d, TRUE, now)
        /\ lastScaleDownTime' = StampDown(r.d, TRUE, now)
        /\ tick' = HistoryTick(TRUE, q)
        /\ UNCHANGED now

HistoryTicks ==
    /\ TicksBefore < MaxHistoryTicks
    /\ \/ HistoryFetchFailed
       \/ \E q \in LoopQueues : HistoryListFailed(q)
       \/ \E q \in LoopQueues, c \in LoopCounts : HistoryDecided(q, c)
    /\ UNCHANGED <<cfg, runners>>
    /\ UNCHANGED <<leVars, stVars, ghVars, pvVars, cfVars, mgVars, ioVars>>

InitHistory ==
    /\ cfg \in { c \in LoopConfigs : /\ c.CooldownPeriod = 0
                                     /\ c.ScaleUpHysteresis = 1
                                     /\ c.ScaleDownHysteresis = 1 }
    /\ lastScaleUpTime = ZeroTime
    /\ lastScaleDownTime = ZeroTime
    /\ scaleUpCounter = 0
    /\ scaleDownCounter = 0
    /\ queueHistory \in HistoryStarts
    /\ now = StartTime
    /\ decision = NoDecision
    /\ tick = NoTick
    /\ runners = <<>>
    /\ LEConstructed
    /\ leEnabled = TRUE
    /\ StoreIdle
    /\ ClientIdle
    /\ ProviderIdle
    /\ ConfigIdle
    /\ ManagerIdle
    /\ StoreIOIdle

NextHistory == HistoryTicks

SpecHistory == InitHistory /\ [][NextHistory]_vars

\* the most recent HistoryCap samples of h followed by q, in arrival order
MostRecent(h, q) ==
    IF Len(h) < HistoryCap THEN Append(h, q)
    ELSE [k \in 1..HistoryCap |-> IF k < HistoryCap THEN h[k + 1 + (Len(h) - HistoryCap)]
                                  ELSE q]

\* C31 Queue history is a bounded FIFO: the history never holds more than
\* 100 samples; a tick whose queue fetch succeeded appends exactly its sample,
\* dropping the oldest one when the history was full, and a tick whose fetch
\* failed leaves the history as it was.
C31_BoundedHistory ==
    /\ Len(queueHistory) <= 100
    /\ tick.kind = "history" =>
          /\ tick.fetched => queueHistory = MostRecent(tick.h0, tick.q)
          /\ ~tick.fetched => queueHistory = tick.h0

\* a fetched tick on a full history: the oldest sample is gone, the others
\* have moved up and the new one is last
C31_Witness ==
    /\ tick.kind = "history"
    /\ tick.fetched
    /\ Len(tick.h0) = 100
    /\ Len(queueHistory) = 100
    /\ tick.h0[1] # tick.h0[2]
    /\ queueHistory[1] = tick.h0[2]
    /\ queueHistory[99] = tick.h0[100]
    /\ queueHistory[100] = tick.q

(***************************************************************************)
(* SpecPredict: the reconcile loop of Spec without cooldown, with          *)
(* EnablePredictiveScaling on and off, from histories of fewer than 5,     *)
(* of 9, of 10 and of 11 samples once the tick's own sample is appended.   *)
(***************************************************************************)
\* the shapes of the histories SpecPredict starts from, as the k-th of n
\* samples: rising to MaxQueue, falling from it, flat at 0, flat at MaxQueue,
\* and alternating between 0 and MaxQueue
Shapes == {"rise", "fall", "low", "high", "saw"}

Sample(shape, k, n) ==
    CASE shape = "rise" -> (k * MaxQueue) \div n
      [] shape = "fall" -> MaxQueue - ((k * MaxQueue) \div n)
      [] shape = "low" -> 0
      [] shape = "high" -> MaxQueue
      [] shape = "saw" -> (k % 2) * MaxQueue

PredictStarts ==
    { [k \in 1..n |-> Sample(shape, k, n)] : n \in {0, 3, 4, 9, 10}, shape \in Shapes }

\* observation of a tick of SpecPredict:
\*   n     the ticks so far;  q  the queue depth fetched
\*   h     the history makeScalingDecision read, the sample q appended
\*   used  the queue depth makeScalingDecision classified
PredictTick(q, h) ==
    [kind |-> "predict", n |-> TicksBefore + 1, q |-> q, h |-> h,
     used |-> EffectiveQueue(q, h)]

\* c.reconcile(ctx) that fetched queue depth q and listed c runners
\* (controller.go:102-163), its batch ending at once
PredictDecided(q, c) ==
    LET h == UpdateQueueHistory(queueHistory, q)
        r == MakeScalingDecision(q, c, now, h)
    IN  /\ queueHistory' = h
        /\ decision' = r.d
        /\ scaleUpCounter' = r.up
        /\ scaleDownCounter' = r.down
        /\ lastScaleUpTime' = StampUp(r.d, TRUE, now)
        /\ lastScaleDownTime' = StampDown(r.d, TRUE, now)
        /\ tick' = PredictTick(q, h)
        /\ UNCHANGED now

PredictTicks ==
    /\ TicksBefore < MaxPredictTicks
    /\ \E q \in 0..MaxQueue, c \in LoopCounts : PredictDecided(q, c)
    /\ UNCHANGED <<cfg, runners>>
    /\ UNCHANGED <<leVars, stVars, ghVars, pvVars, cfVars, mgVars, ioVars>>

PredictConfigs ==
    { c \in ScalingConfigs({1}, {0}, BOOLEAN, {FALSE}) :
        /\ Validate(c)
        /\ c.MinRunners = MaxMinRunners
        /\ c.MaxRunners = MaxMaxRunners
        /\ c.ScaleDownThreshold = 0
        /\ c.ScaleUpThreshold = MaxThreshold }

InitPredict ==
    /\ cfg \in PredictConfigs
    /\ lastScaleUpTime = ZeroTime
    /\ lastScaleDownTime = ZeroTime
    /\ scaleUpCounter = 0
    /\ scaleDownCounter = 0
    /\ queueHistory \in PredictStarts
    /\ now = StartTime
    /\ decision = NoDecision
    /\ tick = NoTick
    /\ runners = <<>>
    /\ LEConstructed
    /\ leEnabled = TRUE
    /\ StoreIdle
    /\ ClientIdle
    /\ ProviderIdle
    /\ ConfigIdle
    /\ ManagerIdle
    /\ StoreIOIdle

NextPredict == PredictTicks

SpecPredict == InitPredict /\ [][NextPredict]_vars

\* a / b truncated toward zero, for b > 0
TruncDiv(a, b) == IF a >= 0 THEN a \div b ELSE -((-a) \div b)

\* max(0, last + 3 * avg_delta) truncated, with avg_delta the mean of the
\* deltas between neighbours over the last min(10, len) samples of h: the
\* deltas sum to the last sample of the window minus its first
LookAhead(h) ==
    LET w == Min2(10, Len(h))
        last == h[Len(h)]
        sum == last - h[Len(h) - w + 1]
    IN  Max2(0, TruncDiv(last * (w - 1) + 3 * sum, w - 1))

\* C32 Predictive look-ahead only raises the queue depth: with predictive
\* scaling enabled and at least 5 samples the depth classified is
\* max(q, q') with q' the look-ahead; with fewer than 5 samples or with
\* prediction disabled it is q; it is never below q.
C32_PredictiveLookAhead ==
    tick.kind = "predict" =>
        /\ (cfg.EnablePredictiveScaling /\ Len(tick.h) >= 5)
              => tick.used = Max2(tick.q, LookAhead(tick.h))
        /\ (~cfg.EnablePredictiveScaling \/ Len(tick.h) < 5) => tick.used = tick.q
        /\ tick.used >= tick.q

\* a tick on a window of 10 out of 11 samples whose look-ahead is above the
\* queue depth fetched and is the depth classified
C32_Witness ==
    /\ tick.kind = "predict"
    /\ cfg.EnablePredictiveScaling
    /\ Len(tick.h) = 11
    /\ tick.h[1] # tick.h[2]
    /\ LookAhead(tick.h) > tick.q
    /\ tick.used = LookAhead(tick.h)
    /\ decision.Action = ScaleActionUp

\* a tick whose look-ahead is below the queue depth fetched
C32_WitnessBelow ==
    /\ tick.kind = "predict"
    /\ cfg.EnablePredictiveScaling
    /\ Len(tick.h) >= 5
    /\ LookAhead(tick.h) < tick.q
    /\ tick.used = tick.q

(***************************************************************************)
(* SpecStoreIO: one Store with persistence enabled, at the grain of its    *)
(* mutex, of the slice s.events and the array behind it, and of the        *)
(* system calls of os.WriteFile.  io holds                                 *)
(*   pc      "new" before store.New, "idle" between calls, "persist" in    *)
(*           RecordScaleEvent before os.WriteFile, "opened" inside         *)
(*           os.WriteFile after the open, "failed" when New returned an    *)
(*           error                                                         *)
(*   mu      s.mu: "free" or "w"                                           *)
(*   file    the event file: "absent", "whole" (a complete JSON array of   *)
(*           the events storeFile) or "cut" (the events storeFile were     *)
(*           written and the array is not closed; empty after the open)    *)
(*   arr, off  the array behind s.events and the offset of s.events in it; *)
(*           events is the array's cells off+1 .. off+Len(events)          *)
(*   data    the bytes persist marshalled                                  *)
(*   res     the slice a reader holds from its last read                   *)
(* and, as observations, before (the file when the append began), loaded   *)
(* (the events New loaded), appended (RecordScaleEvent calls since New),   *)
(* logHit (a reader's write changed s.events) with hitBy (the read whose   *)
(* slice it wrote through), wrote and crashes.                            *)
(***************************************************************************)
NoEvent == [Action |-> "none"]
Scribble == [Action |-> "reader"]
NoResult == [op |-> "none", shared |-> FALSE, off |-> 0, len |-> 0, own |-> <<>>,
             got |-> <<>>]

\* the k-th event of the file a Store finds when it starts
FileEvent(k) ==
    ScaleEvent("scale_up", [QueueDepth |-> 0, CurrentCount |-> k - 1], k, StartTime)

OldFile(n) == [k \in 1..n |-> FileEvent(k)]

\* a process before store.New
StoreProcess(file, crashes) ==
    [pc |-> "new", mu |-> "free", file |-> file, arr |-> <<>>, off |-> 0,
     data |-> <<>>, res |-> NoResult,
     before |-> [file |-> "none", evs |-> <<>>],
     loaded |-> 0, appended |-> 0, logHit |-> FALSE, hitBy |-> "none",
     wrote |-> 0,
     crashes |-> crashes]

ioOthersUnchanged == UNCHANGED <<ctlVars, leVars, ghVars, pvVars, cfVars, mgVars>>

\* the capacity append gives the new array when len(s.events) = cap(s.events)
\* (runtime growslice below 256 elements: double, or the length needed)
GrowCap(cap, need) == IF need > 2 * cap THEN need ELSE 2 * cap

\* what the reader's slice shows
ResultValue ==
    IF io.res.shared THEN SubSeq(io.arr, io.res.off + 1, io.res.off + io.res.len)
    ELSE io.res.own

\* s.events after s.load() (store.go:89-99): what json.Unmarshal decoded
LoadEvents(file) == file

\* store.New (store.go:33-47) with cfg.Enabled and a path: load takes s.mu,
\* reads the file and decodes it; a file that does not exist is no error
StoreNew ==
    /\ io.pc = "new"
    /\ \/ /\ io.file = "absent"
          /\ events' = <<>>
          /\ io' = [io EXCEPT !.pc = "idle"]
       \/ /\ io.file = "whole"
          /\ events' = LoadEvents(storeFile)
          /\ io' = [io EXCEPT !.pc = "idle", !.arr = LoadEvents(storeFile), !.off = 0,
                              !.loaded = Len(storeFile)]
       \/ /\ io.file = "cut"
          /\ events' = <<>>
          /\ io' = [io EXCEPT !.pc = "failed"]
    /\ UNCHANGED <<storeCfg, storeFile, recorded>>
    /\ ioOthersUnchanged

\* RecordScaleEvent up to the call of os.WriteFile (store.go:50-66, 102):
\* Lock, append, trim, MarshalIndent
RecordBegin ==
    /\ io.pc = "idle"
    /\ io.mu = "free"
    /\ Len(recorded) < MaxStoreAppends
    /\ LET k == Len(recorded) + 1
           e == ScaleEvent("scale_down", [QueueDepth |-> 0, CurrentCount |-> k - 1],
                           MaxFileEvents + k, now)
           len == Len(events)
           cap == Len(io.arr) - io.off
           inPlace == len < cap
           arr1 == IF inPlace THEN [io.arr EXCEPT ![io.off + len + 1] = e]
                   ELSE events \o <<e>> \o
                        [j \in 1..(GrowCap(cap, len + 1) - len - 1) |-> NoEvent]
           off1 == IF inPlace THEN io.off ELSE 0
           drop == IF len + 1 > storeCfg.MaxEvents
                   THEN len + 1 - storeCfg.MaxEvents ELSE 0
           log == RecordScaleEvent(events, e)
       IN  /\ events' = log
           /\ recorded' = Append(recorded, e)
           /\ io' = [io EXCEPT
                  !.pc = "persist", !.mu = "w",
                  !.arr = arr1, !.off = off1 + drop,
                  !.data = log,
                  !.res = IF ~inPlace /\ io.res.shared
                          THEN [io.res EXCEPT !.shared = FALSE, !.own = ResultValue]
                          ELSE io.res,
                  !.before = [file |-> io.file, evs |-> storeFile],
                  !.appended = io.appended + 1]
    /\ UNCHANGED <<storeCfg, storeFile>>
    /\ ioOthersUnchanged

\* os.WriteFile opens the file with O_WRONLY|O_CREATE|O_TRUNC (store.go:107):
\* the file is empty from here on; or the open fails, persist returns the
\* error and the deferred Unlock runs
PersistOpen ==
    /\ io.pc = "persist"
    /\ \/ /\ storeFile' = <<>>
          /\ io' = [io EXCEPT !.pc = "opened", !.file = "cut"]
       \/ /\ io' = [io EXCEPT !.pc = "idle", !.mu = "free"]
          /\ UNCHANGED storeFile
    /\ UNCHANGED <<storeCfg, events, recorded>>
    /\ ioOthersUnchanged

\* os.WriteFile writes the bytes and closes (store.go:107), then
\* RecordScaleEvent returns and the deferred Unlock runs: all bytes are
\* written, or the write fails after the bytes of the first k events
PersistWrite ==
    /\ io.pc = "opened"
    /\ \/ /\ storeFile' = io.data
          /\ io' = [io EXCEPT !.pc = "idle", !.mu = "free", !.file = "whole"]
       \/ \E k \in 0..(Len(io.data) - 1) :
             /\ storeFile' = SubSeq(io.data, 1, k)
             /\ io' = [io EXCEPT !.pc = "idle", !.mu = "free"]
    /\ UNCHANGED <<storeCfg, events, recorded>>
    /\ ioOthersUnchanged

\* the process ends at any point and is started again: the file stays as
\* it is, the memory is gone
Crash ==
    /\ io.pc \in {"idle", "persist", "opened"}
    /\ io.crashes < MaxCrashes
    /\ events' = <<>>
    /\ io' = [StoreProcess(io.file, io.crashes + 1) EXCEPT
                 !.before = io.before, !.data = io.data]
    /\ UNCHANGED <<storeCfg, storeFile, recorded>>
    /\ ioOthersUnchanged

\* s.GetRecentEvents(count) (store.go:70-79): RLock, then a slice of
\* s.events, which shares the array of s.events
ReadRecent ==
    /\ io.pc = "idle"
    /\ io.mu = "free"
    /\ \E count \in {1, MaxFileEvents + MaxStoreAppends} :
          LET n == IF count > Len(events) THEN Len(events) ELSE count IN
          io' = [io EXCEPT !.res =
                    [op |-> "GetRecentEvents", shared |-> TRUE,
                     off |-> io.off + Len(events) - n, len |-> n, own |-> <<>>,
                     got |-> GetRecentEvents(count)]]
    /\ UNCHANGED stVars
    /\ ioOthersUnchanged

\* s.GetAllEvents() (store.go:82-87): RLock, then a copy in a new array
ReadAll ==
    /\ io.pc = "idle"
    /\ io.mu = "free"
    /\ io' = [io EXCEPT !.res =
                 [op |-> "GetAllEvents", shared |-> FALSE, off |-> 0,
                  len |-> Len(events), own |-> GetAllEvents, got |-> GetAllEvents]]
    /\ UNCHANGED stVars
    /\ ioOthersUnchanged

\* the reader assigns to element i of the slice it was returned
ReaderWrites ==
    /\ io.pc \in {"idle", "persist", "opened"}
    /\ io.res.op # "none"
    /\ io.wrote < MaxReaderWrites
    /\ \E i \in 1..io.res.len :
          LET arr1 == IF io.res.shared
                      THEN [io.arr EXCEPT ![io.res.off + i] = Scribble] ELSE io.arr
              log == SubSeq(arr1, io.off + 1, io.off + Len(events))
          IN  /\ events' = log
              /\ io' = [io EXCEPT
                     !.arr = arr1,
                     !.res.own = IF io.res.shared THEN <<>>
                                 ELSE [io.res.own EXCEPT ![i] = Scribble],
                     !.res.got = [io.res.got EXCEPT ![i] = Scribble],
                     !.logHit = io.logHit \/ log # events,
                     !.hitBy = IF log # events THEN io.res.op ELSE io.hitBy,
                     !.wrote = io.wrote + 1]
    /\ UNCHANGED <<storeCfg, storeFile, recorded>>
    /\ ioOthersUnchanged

InitStoreIO ==
    /\ cfg \in { c \in ExecConfigs :
                    c.MinRunners = 0 /\ c.MaxRunners = MaxMaxRunners /\ ~c.DryRun }
    /\ ControllerConstructed
    /\ runners = <<>>
    /\ LEConstructed
    /\ leEnabled = TRUE
    /\ storeCfg \in [Enabled : {TRUE}, MaxEvents : 1..MaxMaxEvents]
    /\ events = <<>>
    /\ recorded = <<>>
    /\ \/ storeFile = <<>> /\ io = StoreProcess("absent", 0)
       \/ storeFile \in { OldFile(n) : n \in 0..MaxFileEvents }
          /\ io = StoreProcess("whole", 0)
    /\ ClientIdle
    /\ ProviderIdle
    /\ ConfigIdle
    /\ ManagerIdle

NextStoreIO ==
    \/ StoreNew
    \/ RecordBegin
    \/ PersistOpen
    \/ PersistWrite
    \/ Crash
    \/ ReadRecent
    \/ ReadAll
    \/ ReaderWrites

SpecStoreIO == InitStoreIO /\ [][NextStoreIO]_vars

\* the slice and the array agree with s.events
HeapAgrees ==
    io.pc \in {"idle", "persist", "opened"} =>
        /\ io.off + Len(events) <= Len(io.arr)
        /\ events = SubSeq(io.arr, io.off + 1, io.off + Len(events))

(***************************************************************************)
(* Claims on the store's lock, slices and file (SpecStoreIO)               *)
(***************************************************************************)
\* C33 Event log size invariant: in every state of a Store, the state right
\* after New has loaded an existing event file included, the number of
\* retained events is at most MaxEvents.
C33_EventLogSize == Len(events) <= storeCfg.MaxEvents

\* what the trim gives: the log is within MaxEvents once RecordScaleEvent
\* was called, and before that when the file loaded was
EventLogSizeOnceRecorded ==
    (io.appended > 0 \/ io.loaded <= storeCfg.MaxEvents)
        => Len(events) <= storeCfg.MaxEvents

\* C34 Atomic event file rewrite: at every instant from the start of an
\* append on, a crash and a concurrent reader of the file included, the file
\* holds the complete array from before the append or the complete array
\* after it, never an empty or partial one.
C34_AtomicRewrite ==
    io.before.file = "whole" =>
        /\ io.file = "whole"
        /\ storeFile = io.before.evs \/ storeFile = io.data

\* what os.WriteFile gives: the file is as before until the open, and a file
\* that is whole holds the array from before the append or the one written
WholeFileIsOldOrNew ==
    io.before.file # "none" =>
        /\ io.pc = "persist" => (io.file = io.before.file /\ storeFile = io.before.evs)
        /\ io.file = "whole" => (storeFile = io.before.evs \/ storeFile = io.data)

\* C35 Event log reads are copy-on-return: a later RecordScaleEvent never
\* changes a slice GetRecentEvents or GetAllEvents returned, and a write of
\* the reader through the returned slice never changes the log.
C35_CopyOnReturn ==
    /\ io.res.op # "none" => ResultValue = io.res.got
    /\ ~io.logHit

\* what holds of C35: no RecordScaleEvent changes a returned slice, and only
\* a write through a slice GetRecentEvents returned changes the log
ReadsKeepTheirValue ==
    /\ io.res.op # "none" => ResultValue = io.res.got
    /\ io.logHit => io.hitBy = "GetRecentEvents"

\* C36 No lock is held across an I/O call: while a task is inside the write
\* of the event file it does not hold the lock of the event log.
C36_NoLockAcrossIO == io.pc = "opened" => io.mu = "free"

\* what holds of s.mu: it is write-locked from the Lock of RecordScaleEvent
\* to its return, and at no other time
LockedWhileRecording == io.mu = "w" <=> io.pc \in {"persist", "opened"}

(***************************************************************************)
(* Claims on the usable runners a scale-down batch leaves (SpecDown)       *)
(***************************************************************************)
\* the statuses of a runner that takes jobs or is about to
LiveStatuses ==
    {StatusPending, StatusProvisioning, StatusRunning, StatusIdle, StatusBusy}

\* the runners of list in a live status
LiveCount(list) ==
    Cardinality({ k \in 1..Len(list) : list[k].Status \in LiveStatuses })

\* C37 Scale-down keeps MinRunners usable runners: whenever at least
\* MinRunners runners in a live status are listed before a scale-down batch,
\* at least MinRunners runners in a live status are listed after it.
C37_ScaleDownKeepsLive ==
    (BatchRan /\ tick.action = ScaleActionDown
              /\ LiveCount(tick.pre) >= cfg.MinRunners)
        => LiveCount(runners) >= cfg.MinRunners

\* what the count of the list gives: the batch keeps MinRunners live runners
\* whenever every runner it lists is live
ScaleDownKeepsLiveOfLiveList ==
    (BatchRan /\ tick.action = ScaleActionDown
              /\ LiveCount(tick.pre) = Len(tick.pre))
        => LiveCount(runners) >= cfg.MinRunners

C39_CounterRange ==
    /\ 0 <= scaleUpCounter
    /\ scaleUpCounter < Max2(1, cfg.ScaleUpHysteresis)
    /\ 0 <= scaleDownCounter
    /\ scaleDownCounter < Max2(1, cfg.ScaleDownHysteresis)
    /\ Decided =>
          /\ decision.Action # ScaleActionNone
                => (scaleUpCounter = 0 /\ scaleDownCounter = 0)
          /\ tick.cool => (scaleUpCounter = tick.up0 /\ scaleDownCounter = tick.down0)

\* a call that found the up counter one short of ScaleUpHysteresis = 2 with
\* the down counter standing at 1, emitted action up and left both at zero
C39_Witness ==
    /\ Decided
    /\ cfg.ScaleUpHysteresis = 2
    /\ tick.up0 = 1
    /\ tick.down0 = 1
    /\ decision.Action = ScaleActionUp
    /\ scaleUpCounter = 0
    /\ scaleDownCounter = 0

\* a call in cooldown that saw the queue at the scale-up threshold and no
\* runner, and did not count it
C39_WitnessCooldown ==
    /\ Decided
    /\ tick.cool
    /\ cfg.ScaleUpHysteresis = 2
    /\ cfg.MaxRunners >= 1
    /\ decision.QueueDepth >= cfg.ScaleUpThreshold
    /\ decision.QueueDepth >= 1
    /\ decision.CurrentCount = 0
    /\ scaleUpCounter = 0

(***************************************************************************)
(* The lease of a sole leader (SpecLE)                                     *)
(***************************************************************************)
\* p is in the loop of le.Run with a live context and holds the lock of the
\* lock file through le.lockFd, the file was never replaced, and no other
\* process has run a retry tick
SoleLeader(p) ==
    /\ leEnabled
    /\ inode = 0
    /\ stage[p] = "run"
    /\ ~ctxDone[p]
    /\ lockFd[p] = 0
    /\ flock[0] = p
    /\ \A q \in Procs \ {p} : lastTry[q] = "none"

\* C40: with leader election enabled, a process that has acquired the lock
\* and faces no other contender remains leader on every later retry tick
\* while its context is live: on_release is not fired.
C40_SoleLeaderKeepsLease ==
    \A p \in Procs : SoleLeader(p) => leading[p]

\* what holds of C40: the sole leader leads as long as its latest answered
\* retry tick is the one that acquired the lock
SoleLeaderLeadsAfterAcquiring ==
    \A p \in Procs : (SoleLeader(p) /\ lastTry[p] = "acquired") => leading[p]

\* the next answered retry tick of a sole leader is refused by the lock the
\* process holds through its older descriptor, and the lease is given up
SoleLeaderRefusedByOwnLock ==
    \A p \in Procs : (SoleLeader(p) /\ lastTry[p] = "busy") => ~leading[p]

====
